---- MODULE Spec2Model ----
(***************************************************************************)
(* Model of the MiroThinker agent runtime: the turn loop of the main agent *)
(* and of a sub-agent, the response parser, the tool manager, the LLM      *)
(* client's create_message and the output formatter.                       *)
(*                                                                         *)
(* Text is modelled as a sequence of tokens (strings).  A tag such as      *)
(* <use_mcp_tool> is one token, " " is one whitespace character, "-" is    *)
(* the dash and every other token stands for a run of ordinary characters. *)
(***************************************************************************)
EXTENDS Integers, Sequences, FiniteSets, TLC

\* None, for values that are otherwise sequences of tokens
NULL == <<>>

\* ---------------------------------------------------------------- bounds
MaxTurnsBound == 2
MaxToolCallsBound == 2
MaxCallsPerMsg == 2
MaxSubTurns == 1

\* ---------------------------------------------------------------- tokens
WS == " "
DASH == "-"
USE_O == "<use_mcp_tool>"
USE_C == "</use_mcp_tool>"
SN_O == "<server_name>"
SN_C == "</server_name>"
TN_O == "<tool_name>"
TN_C == "</tool_name>"
ARG_O == "<arguments>"
ARG_C == "</arguments>"

Min(S) == CHOOSE x \in S : \A y \in S : x <= y

Max(S) == CHOOSE x \in S : \A y \in S : x >= y

\* s[a..b], empty when b < a (Python slice s[a-1:b])
Slice(s, a, b) == [i \in 1..(b - a + 1) |-> s[a + i - 1]]

\* str.strip(): drop leading and trailing whitespace
Strip(s) ==
  LET nonws == {i \in 1..Len(s) : s[i] # WS}
  IN IF nonws = {} THEN <<>> ELSE Slice(s, Min(nonws), Max(nonws))

\* position reached by the greedy \s* of the regular expression from i
SkipWs(t, i) ==
  LET stops == {j \in i..Len(t) : t[j] # WS}
  IN IF stops = {} THEN Len(t) + 1 ELSE Min(stops)

At(t, i, tok) == i >= 1 /\ i <= Len(t) /\ t[i] = tok

\* ------------------------------------------------- parsing_utils.py
\* json.loads / repair_json succeed on these argument strings
ValidJson == {"{json}"}

FailedToParse == <<"Failed to parse arguments">>

\* safe_json_loads: the parsed object, or the {error, raw} object
safe_json_loads(arguments_str) ==
  IF arguments_str = <<>> \/ \E i \in 1..Len(arguments_str) : arguments_str[i] \notin ValidJson
  THEN [error |-> FailedToParse, raw |-> arguments_str]
  ELSE [error |-> NULL, raw |-> arguments_str]

\* The tail "\s*</arguments>\s*</use_mcp_tool>" of the pattern matches at q;
\* the result is the position after the match, 0 when it does not match.
TailEnd(t, q) ==
  LET a == SkipWs(t, q)
      u == SkipWs(t, a + 1)
  IN IF At(t, a, ARG_C) /\ At(t, u, USE_C) THEN u + 1 ELSE 0

\* "<arguments>\s*([\s\S]*?)" after </tool_name> at p: the lazy group ends at
\* the first position from which the tail matches
ArgsEnds(t, p) ==
  LET j3 == SkipWs(t, p + 1)
      s3 == SkipWs(t, j3 + 1)
  IN IF At(t, j3, ARG_O)
     THEN {q \in s3..(Len(t) + 1) : TailEnd(t, q) # 0}
     ELSE {}

\* "<tool_name>(.*?)</tool_name>" after </server_name> at p
ToolEnds(t, p) ==
  LET j2 == SkipWs(t, p + 1)
  IN IF At(t, j2, TN_O)
     THEN {p2 \in (j2 + 1)..Len(t) : t[p2] = TN_C /\ ArgsEnds(t, p2) # {}}
     ELSE {}

\* one match of the tool-call pattern starting at i (re.DOTALL: the lazy
\* groups run over any token); backtracking takes the first end of group 1,
\* then of group 2, then of group 3, that lets the rest match
MatchAt(t, i) ==
  LET j1 == SkipWs(t, i + 1)
      P1 == IF At(t, i, USE_O) /\ At(t, j1, SN_O)
            THEN {p1 \in (j1 + 1)..Len(t) : t[p1] = SN_C /\ ToolEnds(t, p1) # {}}
            ELSE {}
  IN IF P1 = {} THEN [ok |-> FALSE]
     ELSE LET p1 == Min(P1)
              j2 == SkipWs(t, p1 + 1)
              p2 == Min(ToolEnds(t, p1))
              j3 == SkipWs(t, p2 + 1)
              s3 == SkipWs(t, j3 + 1)
              q  == Min(ArgsEnds(t, p2))
          IN [ok |-> TRUE,
              server |-> Slice(t, j1 + 1, p1 - 1),
              tool |-> Slice(t, j2 + 1, p2 - 1),
              args |-> Slice(t, s3, q - 1),
              end |-> TailEnd(t, q)]

\* re.search in place of re.findall: the first match only
RECURSIVE FindFirst(_, _)
FindFirst(t, i) ==
  IF i > Len(t) THEN <<>>
  ELSE LET m == MatchAt(t, i)
       IN IF m.ok THEN <<m>> ELSE FindFirst(t, i + 1)

\* re.findall: leftmost matches, not overlapping, in order
RECURSIVE FindAll(_, _)
FindAll(t, i) ==
  IF i > Len(t) THEN <<>>
  ELSE LET m == MatchAt(t, i)
       IN IF m.ok THEN <<m>> \o FindAll(t, m.end) ELSE FindAll(t, i + 1)

\* name.rsplit("-", maxsplit=1), "unknown" server when the name has no dash
SplitName(name) ==
  LET dashes == {i \in 1..Len(name) : name[i] = DASH}
  IN IF dashes = {}
     THEN [server_name |-> <<"unknown">>, tool_name |-> name]
     ELSE [server_name |-> Slice(name, 1, Max(dashes) - 1),
           tool_name |-> Slice(name, Max(dashes) + 1, Len(name))]

\* the list branch's own argument parsing: json.loads, then the quote and
\* literal replacement, then the {error, raw} object
ListArguments(arguments_str) ==
  IF arguments_str = <<>> \/ \E i \in 1..Len(arguments_str) : arguments_str[i] \notin ValidJson
  THEN [error |-> FailedToParse, raw |-> arguments_str]
  ELSE [error |-> NULL, raw |-> arguments_str]

\* the list branch with the id read once, from the first item
ParseNativeFirstId(tool_calls) ==
  [k \in 1..Len(tool_calls) |->
     [server_name |-> SplitName(tool_calls[k].name).server_name,
      tool_name |-> SplitName(tool_calls[k].name).tool_name,
      arguments |-> ListArguments(tool_calls[k].arguments),
      id |-> tool_calls[1].id]]

\* the list branch: one call per item, in order, id = tool_call.id
ParseNative(tool_calls) ==
  [k \in 1..Len(tool_calls) |->
     [server_name |-> SplitName(tool_calls[k].name).server_name,
      tool_name |-> SplitName(tool_calls[k].name).tool_name,
      arguments |-> ListArguments(tool_calls[k].arguments),
      id |-> tool_calls[k].id]]

\* the text branch: one call per match of the pattern, id = None
ParseFramed(text) ==
  LET ms == FindAll(text, 1)
  IN [k \in 1..Len(ms) |->
        [server_name |-> Strip(ms[k].server),
         tool_name |-> Strip(ms[k].tool),
         arguments |-> safe_json_loads(Strip(ms[k].args)),
         id |-> NULL]]

\* a response is [shape |-> "list", tool_calls |-> ...] or [shape |-> "text", text |-> ...]
parse_llm_response_for_tool_calls(resp) ==
  IF resp.shape = "list" THEN ParseNative(resp.tool_calls) ELSE ParseFramed(resp.text)

\* ------------------------------------------------- output_formatter.py
max_len == 100000

\* the error text with the tool and the server exchanged
format_tool_result_swapped(r) ==
  IF "error" \in DOMAIN r
  THEN <<"Tool call to ">> \o r.server_name \o <<" on ">> \o r.tool_name
         \o <<" failed. Error: ">> \o r.error
  ELSE IF "result" \in DOMAIN r
  THEN r.result
  ELSE <<"Tool call to ">> \o r.tool_name \o <<" on ">> \o r.server_name
         \o <<" completed, but produced no specific output or result.">>

\* the truncation that cuts one character late
format_tool_result_cut_late(r) ==
  IF "error" \in DOMAIN r
  THEN <<"Tool call to ">> \o r.tool_name \o <<" on ">> \o r.server_name
         \o <<" failed. Error: ">> \o r.error
  ELSE IF "result" \in DOMAIN r
  THEN IF Len(r.result) > max_len
       THEN Slice(r.result, 1, max_len + 1) \o <<"\n... [Result truncated]">>
       ELSE r.result
  ELSE <<"Tool call to ">> \o r.tool_name \o <<" on ">> \o r.server_name
         \o <<" completed, but produced no specific output or result.">>

\* format_tool_result_for_user: the text re-attached to the history
format_tool_result_for_user(r) ==
  IF "error" \in DOMAIN r
  THEN <<"Tool call to ">> \o r.tool_name \o <<" on ">> \o r.server_name
         \o <<" failed. Error: ">> \o r.error
  ELSE IF "result" \in DOMAIN r
  THEN IF Len(r.result) > max_len
       THEN Slice(r.result, 1, max_len) \o <<"\n... [Result truncated]">>
       ELSE r.result
  ELSE <<"Tool call to ">> \o r.tool_name \o <<" on ">> \o r.server_name
         \o <<" completed, but produced no specific output or result.">>

\* ------------------------------------------------- tool manager
\* names of the configured servers (server_dict)
TOOL_PYTHON == <<"tool", DASH, "python">>
TOOL_SEARCH == <<"search_and_scrape_webpage">>
server_dict == {TOOL_PYTHON, TOOL_SEARCH}

\* what the tool server does during one call: the transport fails to open,
\* session.initialize() fails, session.call_tool() fails, or the call returns
\* a list of content blocks
TextBlock(x) == [type |-> "text", text |-> <<x>>]
ImageBlock == [type |-> "image"]
ToolEnvs ==
  {[step |-> "open_fail"], [step |-> "init_fail"], [step |-> "call_fail"]}
  \cup {[step |-> "ok", content |-> c] :
          c \in {<<>>, <<TextBlock("out")>>, <<TextBlock("first"), TextBlock("last")>>,
                 <<TextBlock("out"), ImageBlock>>}}

ExcText(env) ==
  IF env.step = "open_fail" THEN <<"ConnectError">>
  ELSE IF env.step = "init_fail" THEN <<"McpError">>
  ELSE <<"ToolError">>

\* rv(): the common fields and exactly one of error / result
rv_error(server_name, tool_name, exc) ==
  [server_name |-> server_name, tool_name |-> tool_name, error |-> exc]

\* rv() that keeps the error key next to the result
rv_result_and_error(server_name, tool_name, res) ==
  [server_name |-> server_name, tool_name |-> tool_name, result |-> res, error |-> NULL]

rv_result(server_name, tool_name, res) ==
  [server_name |-> server_name, tool_name |-> tool_name, result |-> res]

Returned(v) == [kind |-> "return", value |-> v]
Raised(e) == [kind |-> "raise", exc |-> e]

\* manager_v2.py, inner_call_tool: the text of the last block when it is a
\* TextContent, "" otherwise
inner_call_tool(env) ==
  IF env.step = "call_fail" THEN [res |-> NULL, exc |-> ExcText(env)]
  ELSE LET c == env.content
       IN [res |-> IF Len(c) > 0 /\ c[Len(c)].type = "text" THEN c[Len(c)].text ELSE <<>>,
           exc |-> NULL]

\* manager_v2.py, ToolManagerV2.execute_tool_call: every exception of the
\* connection and of the call is caught
execute_tool_call(server_name, tool_name, env) ==
  IF server_name \notin server_dict
  THEN Returned(rv_error(server_name, tool_name,
                         <<"Server '">> \o server_name \o <<"' not found.">>))
  ELSE IF env.step \in {"open_fail", "init_fail"}
  THEN Returned(rv_error(server_name, tool_name, <<"MCP session error: ">> \o ExcText(env)))
  ELSE LET r == inner_call_tool(env)
       IN IF r.exc # NULL
          THEN Returned(rv_error(server_name, tool_name,
                                 <<"Tool execution failed: ">> \o r.exc))
          ELSE Returned(rv_result(server_name, tool_name, r.res))

\* managerv2.py, ToolManagerV2.execute_tool_call: the connection is entered
\* outside any try block and the last block's .text is read unguarded
execute_tool_call_managerv2(server_name, tool_name, env) ==
  IF server_name \notin server_dict
  THEN Returned(rv_error(server_name, tool_name,
                         <<"Server '">> \o server_name \o <<"' not found.">>))
  ELSE IF env.step \in {"open_fail", "init_fail"}
  THEN Raised(ExcText(env))
  ELSE IF env.step = "call_fail"
  THEN Returned(rv_error(server_name, tool_name,
                         <<"Tool execution failed: ">> \o ExcText(env)))
  ELSE LET c == env.content
       IN IF Len(c) = 0 THEN Returned(rv_result(server_name, tool_name, <<>>))
          ELSE IF c[Len(c)].type = "text"
          THEN Returned(rv_result(server_name, tool_name, c[Len(c)].text))
          ELSE Raised(<<"AttributeError">>)

\* ------------------------------------------------- base_client.py
NoResponse == [shape |-> "None"]

\* what the provider's _create_message does with the request
OkOutcome(resp, h) == [kind |-> "ok", response |-> resp, message_history |-> h]
ErrorOutcome == [kind |-> "error"]
TimeoutOutcome == [kind |-> "timeout"]

\* create_message with the except branch returning a history that already
\* holds the partial assistant message
create_message_partial(message_history, out) ==
  IF out.kind = "ok"
  THEN [raised |-> FALSE, response |-> out.response, message_history |-> out.message_history]
  ELSE [raised |-> FALSE, response |-> NoResponse,
        message_history |-> Append(message_history, [role |-> "assistant", kind |-> "partial"])]

\* the body of BaseClient.create_message: an exception of _create_message is
\* caught, logged, and answered by (None, message_history), message_history
\* still being the argument
create_message_body(message_history, out) ==
  IF out.kind = "ok"
  THEN [raised |-> FALSE, response |-> out.response, message_history |-> out.message_history]
  ELSE [raised |-> FALSE, response |-> NoResponse, message_history |-> message_history]

\* llm/util.py, with_timeout(600): on timeout the call is abandoned and
\* answered by (None, history)
with_timeout(message_history, out) ==
  IF out.kind = "timeout"
  THEN [raised |-> FALSE, response |-> NoResponse, message_history |-> message_history]
  ELSE create_message_body(message_history, out)

create_message(message_history, out) == with_timeout(message_history, out)

\* ------------------------------------------------- the turn loop
Agents == {"main", "sub"}

AGENT_BROWSING == <<"agent", DASH, "browsing">>
SubAgentNames == {AGENT_BROWSING}

RUN_PYTHON_CODE == <<"run_python_code">>
SEARCH_AND_BROWSE == <<"search_and_browse">>

NoId == NULL
CallId(k) == <<"call", k>>

\* the calls a model emits: a python call, a call to a server that is not
\* configured, and (main agent only) a delegation to the sub-agent
PythonCall == [server_name |-> TOOL_PYTHON, tool_name |-> RUN_PYTHON_CODE]
WrongServerCall == [server_name |-> <<"wrong">>, tool_name |-> RUN_PYTHON_CODE]
DelegateCall == [server_name |-> AGENT_BROWSING, tool_name |-> SEARCH_AND_BROWSE]

FirstCalls(a) ==
  IF a = "main" THEN {PythonCall, WrongServerCall, DelegateCall} ELSE {PythonCall}

\* the call lists of one response: none, or a first call followed by python
\* calls; the sub-agent emits at most one call in a response
CallSeqs(a) ==
  {<<>>} \cup {[k \in 1..n |-> IF k = 1 THEN x ELSE PythonCall] :
                 x \in FirstCalls(a), n \in 1..(IF a = "main" THEN MaxCallsPerMsg ELSE 1)}

\* one complete framed block, and a block cut before its closing tags
Block(c) ==
  <<USE_O, WS, SN_O>> \o c.server_name \o <<SN_C, WS, TN_O>> \o c.tool_name
    \o <<TN_C, WS, ARG_O, WS, "{json}", WS, ARG_C, WS, USE_C>>

CutBlock(c) ==
  <<USE_O, WS, SN_O>> \o c.server_name \o <<SN_C, WS, TN_O>> \o c.tool_name
    \o <<TN_C, WS, ARG_O, WS, "{json}">>

RECURSIVE Render(_)
Render(cs) == IF cs = <<>> THEN <<>> ELSE Block(Head(cs)) \o <<WS>> \o Render(Tail(cs))

\* the framed response text for a call list; cut = the generation stopped
\* inside one more block
FramedResponse(cs, cut) ==
  [shape |-> "text",
   text |-> <<"thought", WS>> \o Render(cs) \o (IF cut THEN CutBlock(PythonCall) ELSE <<>>),
   emitted |-> [k \in 1..Len(cs) |-> [server_name |-> cs[k].server_name,
                                       tool_name |-> cs[k].tool_name, id |-> NoId]]]

\* the native response: one tool_call object per call, ids distinct within
\* the response
NativeResponse(cs) ==
  [shape |-> "list",
   text |-> <<"thought">>,
   tool_calls |-> [k \in 1..Len(cs) |->
                     [id |-> CallId(k),
                      name |-> cs[k].server_name \o <<DASH>> \o cs[k].tool_name,
                      arguments |-> <<"{json}">>]],
   emitted |-> [k \in 1..Len(cs) |-> [server_name |-> cs[k].server_name,
                                       tool_name |-> cs[k].tool_name, id |-> CallId(k)]]]

Responses(a, d) ==
  IF d = "native" THEN {NativeResponse(cs) : cs \in CallSeqs(a)}
  ELSE {FramedResponse(cs, FALSE) : cs \in CallSeqs(a)}
       \cup (IF a = "main"
             THEN {FramedResponse(cs, TRUE) : cs \in {<<>>, <<PythonCall>>}}
             ELSE {})

\* what the tool server does during a call of the loop
LoopToolEnvs(a) ==
  IF a = "main"
  THEN {[step |-> "ok", content |-> <<TextBlock("out")>>], [step |-> "call_fail"]}
  ELSE {[step |-> "ok", content |-> <<TextBlock("out")>>]}

\* how a model call of the loop fails
LoopFailures(a) == IF a = "main" THEN {ErrorOutcome, TimeoutOutcome} ELSE {ErrorOutcome}

NoCall == [server_name |-> <<>>, tool_name |-> <<>>, id |-> NoId]

TaskMsg(text) ==
  [role |-> "user", kind |-> "task", content |-> text, tool_calls |-> <<>>,
   tool_call_id |-> NoId, emitted |-> <<>>, of_call |-> NoCall]

SummarizeMsg ==
  [role |-> "user", kind |-> "summarize", content |-> <<"summarize">>, tool_calls |-> <<>>,
   tool_call_id |-> NoId, emitted |-> <<>>, of_call |-> NoCall]

\* the assistant message of a response: its text, its tool_calls (native)
AssistantMsg(resp) ==
  [role |-> "assistant", kind |-> "assistant", content |-> resp.text,
   tool_calls |-> IF resp.shape = "list" THEN resp.tool_calls ELSE <<>>,
   tool_call_id |-> NoId, emitted |-> resp.emitted, of_call |-> NoCall]

\* the message that carries a tool result: a tool message with the call's id
\* in the native dialect, a user message in the framed dialect
ResultMsg(d, call, content) ==
  [role |-> IF d = "native" THEN "tool" ELSE "user", kind |-> "tool_result",
   content |-> content, tool_calls |-> <<>>,
   tool_call_id |-> IF d = "native" THEN call.id ELSE NoId,
   emitted |-> <<>>,
   of_call |-> [server_name |-> call.server_name, tool_name |-> call.tool_name,
                id |-> call.id]]

VARIABLES
  dialect,               \* "native" or "framed": a property of the provider
  max_turns,             \* per agent
  max_tool_calls,        \* per agent
  history,               \* per agent: the message history of its loop
  turn_index,            \* per agent
  tool_budget_used,      \* per agent
  wall_clock_exhausted,  \* the wall-clock budget of the run is used up
  pc,                    \* per agent: "idle", "llm", "tools", "delegating", "answer", "done", "cancelled"
  pending,               \* per agent: the tool calls of the turn not yet executed
  status,                \* TaskLog.status
  persisted,             \* TaskLog.main_agent_message_history as saved
  sub_agent_counter,     \* TaskLog.sub_agent_counter
  current_sub_agent_session_id,  \* TaskLog.current_sub_agent_session_id
  sessions,              \* TaskLog.sub_agent_message_history_sessions, by counter
  model_calls,           \* per agent: model calls made in its turn loop
  answer_calls,          \* per agent: calls of the Answer Generator
  last_call,             \* the last create_message call: argument, outcome, result
  last_tool,             \* the last tool dispatch of a loop: agent and tool result
  tm_impl,               \* tool manager under test: "manager_v2" or "managerv2"
  tm_server,             \* execute_tool_call: server_name
  tm_tool,               \* execute_tool_call: tool_name
  tm_env,                \* what the tool server does during the call
  tm_out,                \* how execute_tool_call ended: a returned value or an exception
  fn,                    \* the function called on its own, "none" when there is none
  fn_arg,                \* its arguments
  fn_ret,                 \* what it returned, NotCalled before the call
  stream_queue,          \* the queue the StreamHandler puts its events on
  stream_run             \* the run that publishes them: its agents and their positions

configVars == <<dialect, max_turns, max_tool_calls>>

toolVars == <<tm_impl, tm_server, tm_tool, tm_env, tm_out>>

loopVars == <<history, turn_index, tool_budget_used, wall_clock_exhausted, pc, pending,
              status, persisted, sub_agent_counter, current_sub_agent_session_id,
              sessions, model_calls, answer_calls, last_call, last_tool>>

unitVars == <<fn, fn_arg, fn_ret>>

streamVars == <<stream_queue, stream_run>>

vars == <<configVars, loopVars, toolVars, unitVars, streamVars, streamVars>>

NotCalled == [kind |-> "none"]

\* no function is called on its own
NoUnit == fn = "none" /\ fn_arg = <<>> /\ fn_ret = NotCalled

\* no StreamHandler in use
NoStream == stream_queue = <<>> /\ stream_run = [phase |-> "none"]

NoLastCall == [agent |-> "none", outcome |-> "none", passed |-> <<>>,
               returned |-> [raised |-> FALSE, response |-> NoResponse,
                             message_history |-> <<>>]]

NoLastTool == [agent |-> "none", result |-> rv_result(<<>>, <<>>, <<>>)]

Init ==
  /\ dialect \in {"native", "framed"}
  /\ \E n \in 1..MaxTurnsBound, m \in 1..MaxToolCallsBound :
       /\ max_turns = [a \in Agents |-> IF a = "main" THEN n ELSE MaxSubTurns]
       /\ max_tool_calls = [a \in Agents |-> m]
  /\ history = [a \in Agents |-> IF a = "main" THEN <<TaskMsg(<<"task">>)>> ELSE <<>>]
  /\ turn_index = [a \in Agents |-> 0]
  /\ tool_budget_used = [a \in Agents |-> 0]
  /\ wall_clock_exhausted = FALSE
  /\ pc = [a \in Agents |-> IF a = "main" THEN "llm" ELSE "idle"]
  /\ pending = [a \in Agents |-> <<>>]
  /\ status = "running"
  /\ persisted = <<>>
  /\ sub_agent_counter = 0
  /\ current_sub_agent_session_id = NoId
  /\ sessions = <<>>
  /\ model_calls = [a \in Agents |-> 0]
  /\ answer_calls = [a \in Agents |-> 0]
  /\ last_call = NoLastCall
  /\ last_tool = NoLastTool
  /\ tm_impl = "manager_v2"
  /\ tm_server = <<>>
  /\ tm_tool = <<>>
  /\ tm_env = [step |-> "none"]
  /\ tm_out = [kind |-> "none"]
  /\ NoUnit
  /\ NoStream

\* the budget check with the turn bound off by one
BudgetExhaustedLate(a, turns, tools) ==
  \/ turns > max_turns[a]
  \/ tools >= max_tool_calls[a]
  \/ wall_clock_exhausted

\* step 4 of the per-turn procedure: the budgets of agent a
BudgetExhausted(a, turns, tools) ==
  \/ turns >= max_turns[a]
  \/ tools >= max_tool_calls[a]
  \/ wall_clock_exhausted

NextPc(a, turns, tools) == IF BudgetExhausted(a, turns, tools) THEN "answer" ELSE "llm"

\* a null response handled like a turn without a verdict: the loop goes on
\* while the budgets last
NullResponseContinues(a, turns, tools) ==
  IF \/ turns >= max_turns[a]
     \/ tools >= max_tool_calls[a]
     \/ wall_clock_exhausted
  THEN "answer" ELSE "llm"

\* a null response that ends the run without the Answer Generator
NullResponseStops(a, turns, tools) == "done"

\* what a model call of the loop returns on a null response: the turn is terminal
NullResponsePc(a, turns, tools) == "answer"

\* steps 1-3a: the model call of agent a returns.  A null response (error or
\* timeout) records a step, counts the turn and ends the loop; a response is
\* parsed, its assistant message is appended, and its tool calls become the
\* pending calls of the turn (none: terminal turn).
CallModel(a) ==
  /\ status = "running"
  /\ pc[a] = "llm"
  /\ \E out \in {OkOutcome(r, history[a]) : r \in Responses(a, dialect)}
                 \cup LoopFailures(a) :
       LET cm == create_message(history[a], out)
           calls == parse_llm_response_for_tool_calls(cm.response)
           turns == turn_index[a] + 1
       IN /\ last_call' = [agent |-> a, outcome |-> out.kind, passed |-> history[a],
                           returned |-> cm]
          /\ model_calls' = [model_calls EXCEPT ![a] = @ + 1]
          /\ turn_index' = [turn_index EXCEPT ![a] = turns]
          /\ IF cm.response.shape = "None"
             THEN /\ history' = [history EXCEPT ![a] = cm.message_history]
                  /\ pending' = pending
                  /\ pc' = [pc EXCEPT ![a] = NullResponsePc(a, turns, tool_budget_used[a])]
             ELSE /\ history' = [history EXCEPT
                                   ![a] = Append(cm.message_history, AssistantMsg(cm.response))]
                  /\ pending' = [pending EXCEPT ![a] = calls]
                  /\ pc' = [pc EXCEPT ![a] = IF calls = <<>> THEN "answer" ELSE "tools"]
  /\ UNCHANGED <<configVars, toolVars, unitVars, streamVars, tool_budget_used, wall_clock_exhausted,
                 status, persisted, sub_agent_counter, current_sub_agent_session_id,
                 sessions, answer_calls, last_tool>>

IsSubAgentTool(a, call) == a = "main" /\ call.server_name \in SubAgentNames

\* the tool executor: the manager's result (a failure of the manager itself
\* is surfaced as an error result)
ToolExecutor(call, env) ==
  LET r == execute_tool_call(call.server_name, call.tool_name, env)
  IN IF r.kind = "return" THEN r.value
     ELSE rv_error(call.server_name, call.tool_name, r.exc)

\* the history of agent a after the result of its first pending call is appended
WithResult(a, content) ==
  Append(history[a], ResultMsg(dialect, Head(pending[a]), content))

\* step 3b, an ordinary tool: the first pending call is dispatched to the tool
\* manager, its formatted result is appended, and after the last call of the
\* turn the budgets are checked
ExecTool(a) ==
  /\ status = "running"
  /\ pc[a] = "tools"
  /\ pending[a] # <<>>
  /\ ~IsSubAgentTool(a, Head(pending[a]))
  /\ \E env \in LoopToolEnvs(a) :
       LET result == ToolExecutor(Head(pending[a]), env)
           content == format_tool_result_for_user(result)
           tools == tool_budget_used[a] + 1
       IN /\ last_tool' = [agent |-> a, result |-> result]
          /\ history' = [history EXCEPT ![a] = WithResult(a, content)]
          /\ tool_budget_used' = [tool_budget_used EXCEPT ![a] = tools]
          /\ pending' = [pending EXCEPT ![a] = Tail(@)]
          /\ pc' = [pc EXCEPT ![a] = IF Tail(pending[a]) = <<>>
                                     THEN NextPc(a, turn_index[a], tools)
                                     ELSE "tools"]
  /\ UNCHANGED <<configVars, toolVars, unitVars, streamVars, turn_index, wall_clock_exhausted,
                 status, persisted, sub_agent_counter, current_sub_agent_session_id,
                 sessions, model_calls, answer_calls, last_call>>

\* a start of session that reads the counter without incrementing it
start_sub_agent_session_same_counter(sub_agent_name, counter) ==
  [sub_agent_counter |-> counter,
   session_id |-> sub_agent_name \o <<"_", counter>>]

\* task_logger.py, TaskLog.start_sub_agent_session: the counter is incremented
\* and the session id is <sub_agent_name>_<counter>
start_sub_agent_session(sub_agent_name, counter) ==
  [sub_agent_counter |-> counter + 1,
   session_id |-> sub_agent_name \o <<"_", counter + 1>>]

\* an end of session that leaves the session id in place
end_sub_agent_session_keeps_id(session_id) == session_id

\* task_logger.py, TaskLog.end_sub_agent_session: the session id is reset to None
end_sub_agent_session(session_id) == NULL

\* step 3b, a sub-agent tool: the main loop is suspended and the sub-agent
\* starts its own loop on a fresh history
Delegate ==
  /\ status = "running"
  /\ pc["main"] = "tools"
  /\ pending["main"] # <<>>
  /\ IsSubAgentTool("main", Head(pending["main"]))
  /\ LET s == start_sub_agent_session(Head(pending["main"]).server_name, sub_agent_counter)
     IN /\ sub_agent_counter' = s.sub_agent_counter
        /\ current_sub_agent_session_id' = s.session_id
  /\ history' = [history EXCEPT !["sub"] = <<TaskMsg(<<"task_description">>)>>]
  /\ turn_index' = [turn_index EXCEPT !["sub"] = 0]
  /\ tool_budget_used' = [tool_budget_used EXCEPT !["sub"] = 0]
  /\ pending' = [pending EXCEPT !["sub"] = <<>>]
  /\ pc' = [pc EXCEPT !["main"] = "delegating", !["sub"] = "llm"]
  /\ UNCHANGED <<configVars, toolVars, unitVars, streamVars, wall_clock_exhausted, status,
                 persisted, sessions, model_calls, answer_calls, last_call, last_tool>>

\* the final assistant message of the Answer Generator
FinalResponse == [shape |-> "text", text |-> <<"summary">>, emitted |-> <<>>]

\* the history after the Answer Generator: the summarize instruction, and the
\* final assistant message when the final call answered
AfterAnswer(h, cm) ==
  IF cm.response.shape = "None" THEN cm.message_history
  ELSE Append(cm.message_history, AssistantMsg(cm.response))

\* the Answer Generator of the main agent: one final call on the current
\* history, after which the task log is saved
MainAnswer ==
  /\ status = "running"
  /\ pc["main"] = "answer"
  /\ \E out \in {OkOutcome(FinalResponse, Append(history["main"], SummarizeMsg)),
                 ErrorOutcome} :
       LET cm == create_message(Append(history["main"], SummarizeMsg), out)
       IN /\ last_call' = [agent |-> "main", outcome |-> out.kind,
                           passed |-> Append(history["main"], SummarizeMsg), returned |-> cm]
          /\ history' = [history EXCEPT !["main"] = AfterAnswer(history["main"], cm)]
          /\ persisted' = AfterAnswer(history["main"], cm)
  /\ answer_calls' = [answer_calls EXCEPT !["main"] = @ + 1]
  /\ pc' = [pc EXCEPT !["main"] = "done"]
  /\ status' = "success"
  /\ UNCHANGED <<configVars, toolVars, unitVars, streamVars, turn_index, tool_budget_used,
                 wall_clock_exhausted, pending, sub_agent_counter,
                 current_sub_agent_session_id, sessions, model_calls, last_tool>>

\* the Answer Generator of the sub-agent: its summary ends the session and is
\* appended to the main history as the result of the delegating call, after
\* which the main agent goes on with its turn
SubAnswer ==
  /\ status = "running"
  /\ pc["sub"] = "answer"
  /\ pc["main"] = "delegating"
  /\ \E out \in {OkOutcome(FinalResponse, Append(history["sub"], SummarizeMsg)),
                 ErrorOutcome} :
       LET cm == create_message(Append(history["sub"], SummarizeMsg), out)
           summary == IF cm.response.shape = "None" THEN <<>> ELSE cm.response.text
           tools == tool_budget_used["main"] + 1
       IN /\ last_call' = [agent |-> "sub", outcome |-> out.kind,
                           passed |-> Append(history["sub"], SummarizeMsg), returned |-> cm]
          /\ last_tool' = [agent |-> "main",
                            result |-> rv_result(Head(pending["main"]).server_name,
                                                 Head(pending["main"]).tool_name, summary)]
          /\ sessions' = Append(sessions, AfterAnswer(history["sub"], cm))
          /\ history' = [history EXCEPT !["sub"] = <<>>,
                                        !["main"] = WithResult("main", summary)]
          /\ tool_budget_used' = [tool_budget_used EXCEPT !["main"] = tools]
          /\ pc' = [pc EXCEPT !["sub"] = "idle",
                              !["main"] = IF Tail(pending["main"]) = <<>>
                                          THEN NextPc("main", turn_index["main"], tools)
                                          ELSE "tools"]
  /\ pending' = [pending EXCEPT !["main"] = Tail(@)]
  /\ answer_calls' = [answer_calls EXCEPT !["sub"] = @ + 1]
  /\ current_sub_agent_session_id' = end_sub_agent_session(current_sub_agent_session_id)
  /\ UNCHANGED <<configVars, toolVars, unitVars, streamVars, turn_index, wall_clock_exhausted,
                 status, persisted, sub_agent_counter, model_calls>>

\* the wall-clock budget of the run runs out
ClockExpires ==
  /\ status = "running"
  /\ ~wall_clock_exhausted
  /\ wall_clock_exhausted' = TRUE
  /\ UNCHANGED <<configVars, toolVars, unitVars, streamVars, history, turn_index, tool_budget_used,
                 pc, pending, status, persisted, sub_agent_counter,
                 current_sub_agent_session_id, sessions, model_calls, answer_calls,
                 last_call, last_tool>>

\* the last index of an assistant message in h, 0 when there is none
LastAssistant(h) ==
  LET A == {i \in 1..Len(h) : h[i].role = "assistant"}
  IN IF A = {} THEN 0 ELSE Max(A)

\* the history saved as it stands
PersistRaw(h, pend) == h

\* the history that is saved on cancellation: the turns that are complete.
\* A turn whose tool calls are not all answered is left out as a whole.
PersistOnCancel(h, pend) ==
  IF pend = <<>> THEN h ELSE Slice(h, 1, LastAssistant(h) - 1)

\* the host cancels: the call in flight is aborted, no further turn is made,
\* and the history of the complete turns is saved
Cancel ==
  /\ status = "running"
  /\ status' = "cancelled"
  /\ persisted' = PersistOnCancel(history["main"], pending["main"])
  /\ sessions' = IF pc["sub"] = "idle" THEN sessions
                 ELSE Append(sessions, PersistOnCancel(history["sub"], pending["sub"]))
  /\ pc' = [a \in Agents |-> "cancelled"]
  /\ UNCHANGED <<configVars, toolVars, unitVars, streamVars, history, turn_index, tool_budget_used,
                 wall_clock_exhausted, pending, sub_agent_counter,
                 current_sub_agent_session_id, model_calls, answer_calls, last_call, last_tool>>

Step ==
  \/ \E a \in Agents : CallModel(a)
  \/ \E a \in Agents : ExecTool(a)
  \/ Delegate
  \/ MainAnswer
  \/ SubAnswer

Next == Step \/ ClockExpires \/ Cancel

Spec == Init /\ [][Next]_vars

\* every model call and every tool call returns
FairSpec == Spec /\ WF_vars(Step)

\* ------------------------------------------------- the tool manager alone
\* one execute_tool_call of either manager, for every server name, tool name
\* and behaviour of the tool server
InitTools ==
  /\ dialect = "framed"
  /\ max_turns = [a \in Agents |-> 1]
  /\ max_tool_calls = [a \in Agents |-> 1]
  /\ history = [a \in Agents |-> <<>>]
  /\ turn_index = [a \in Agents |-> 0]
  /\ tool_budget_used = [a \in Agents |-> 0]
  /\ wall_clock_exhausted = FALSE
  /\ pc = [a \in Agents |-> "idle"]
  /\ pending = [a \in Agents |-> <<>>]
  /\ status = "idle"
  /\ persisted = <<>>
  /\ sub_agent_counter = 0
  /\ current_sub_agent_session_id = NoId
  /\ sessions = <<>>
  /\ model_calls = [a \in Agents |-> 0]
  /\ answer_calls = [a \in Agents |-> 0]
  /\ last_call = NoLastCall
  /\ last_tool = NoLastTool
  /\ tm_impl \in {"manager_v2", "managerv2"}
  /\ tm_server \in server_dict \cup {<<"wrong">>}
  /\ tm_tool \in {RUN_PYTHON_CODE, <<"google_search">>}
  /\ tm_env \in ToolEnvs
  /\ tm_out = [kind |-> "none"]
  /\ NoUnit
  /\ NoStream

ExecuteToolCall ==
  /\ tm_out.kind = "none"
  /\ tm_env.step # "none"
  /\ tm_out' = IF tm_impl = "manager_v2"
               THEN execute_tool_call(tm_server, tm_tool, tm_env)
               ELSE execute_tool_call_managerv2(tm_server, tm_tool, tm_env)
  /\ UNCHANGED <<configVars, loopVars, unitVars, streamVars, tm_impl, tm_server, tm_tool, tm_env>>

NextTools == ExecuteToolCall

SpecTools == InitTools /\ [][NextTools]_vars

\* ------------------------------------------------- properties
AssistantIdx(h) == {i \in 1..Len(h) : h[i].role = "assistant"}

\* the index of the next assistant message after i, Len(h) + 1 when none
NextAssistant(h, i) ==
  LET A == {j \in AssistantIdx(h) : j > i}
  IN IF A = {} THEN Len(h) + 1 ELSE Min(A)

IsResult(m) == m.kind = "tool_result"

\* the calls answered by the tool-result messages between assistant message i
\* and the next assistant message, in order
ResultsAfter(h, i) ==
  LET w == SelectSeq(Slice(h, i + 1, NextAssistant(h, i) - 1), IsResult)
  IN [k \in 1..Len(w) |-> w[k].of_call]

CallKey(c) == [server_name |-> c.server_name, tool_name |-> c.tool_name, id |-> c.id]

Keys(cs) == [k \in 1..Len(cs) |-> CallKey(cs[k])]

\* every assistant message of h is followed by one result per emitted call, in
\* order; rest = the calls of the last assistant message still to be executed
WellFormed(h, rest) ==
  \A i \in AssistantIdx(h) :
    IF i = LastAssistant(h)
    THEN ResultsAfter(h, i) \o Keys(rest) = h[i].emitted
    ELSE ResultsAfter(h, i) = h[i].emitted

\* C1: in every state of the turn loop of the main agent and of the sub-agent,
\* every assistant message with tool calls is followed, before the next
\* assistant message, by exactly one tool-result message per emitted call, in
\* the order of emission (the calls of the turn in progress that are not yet
\* answered are exactly the pending ones)
C1_HistoryWellFormed ==
  \A a \in Agents : WellFormed(history[a], pending[a])

C1_Witness ==
  /\ dialect = "framed"
  /\ \E i \in AssistantIdx(history["main"]) :
       /\ i < LastAssistant(history["main"])
       /\ Len(history["main"][i].emitted) = 2
       /\ Len(ResultsAfter(history["main"], i)) = 2

IsPrefix(p, h) == Len(p) <= Len(h) /\ Slice(h, 1, Len(p)) = p

\* C3: when every call returns, the run of the main agent ends (or the host
\* cancels it), and a run that ends has invoked the Answer Generator exactly
\* once, on the history of the loop followed by the summarize instruction
C3_TerminatesAndAnswersOnce ==
  /\ <>(status # "running")
  /\ [](answer_calls["main"] <= 1)
  /\ [](status = "success" =>
          /\ answer_calls["main"] = 1
          /\ last_call.agent = "main"
          /\ last_call.passed[Len(last_call.passed)].kind = "summarize"
          /\ IsPrefix(last_call.passed, history["main"]))

C3_Witness ==
  /\ status = "success"
  /\ model_calls["main"] = 2
  /\ max_turns["main"] = 2
  /\ \A i \in AssistantIdx(history["main"]) :
       i < LastAssistant(history["main"]) => Len(history["main"][i].emitted) > 0

C5_ExecuteToolCallNeverRaises == tm_out.kind # "raise"

\* the message text of an error result, as the claim states it
FailedText(r) ==
  <<"Tool call to ">> \o r.tool_name \o <<" on ">> \o r.server_name
    \o <<" failed. Error: ">> \o r.error

\* C6: a step in which a tool call of agent a returns an error result appends a
\* message with the text "Tool call to <tool> on <server> failed. Error:
\* <error>" for that call and does not end the loop: the agent goes on with
\* the calls of the turn, and after the last one to its next model call
\* unless a budget is exhausted
C6_ErrorResultDoesNotTerminate ==
  [][\A a \in Agents :
       (/\ pc[a] = "tools"
        /\ Len(history'[a]) = Len(history[a]) + 1
        /\ last_tool'.agent = a
        /\ "error" \in DOMAIN last_tool'.result)
       => /\ history'[a][Len(history'[a])].content = FailedText(last_tool'.result)
          /\ history'[a][Len(history'[a])].of_call = CallKey(Head(pending[a]))
          /\ status' = "running"
          /\ pc'[a] = IF pending'[a] # <<>> THEN "tools"
                      ELSE IF \/ turn_index'[a] >= max_turns[a]
                              \/ tool_budget_used'[a] >= max_tool_calls[a]
                              \/ wall_clock_exhausted'
                      THEN "answer" ELSE "llm"]_vars

C6_Witness ==
  /\ last_tool.agent = "main"
  /\ "error" \in DOMAIN last_tool.result
  /\ history["main"][Len(history["main"])].content = FailedText(last_tool.result)
  /\ pc["main"] = "llm"

\* C7: a create_message call whose provider call failed or timed out did not
\* raise and returned a null response with the history it was given; the
\* history of the agent holds no message beyond that history
C7_FailedCallReturnsNullAndHistory ==
  last_call.outcome \in {"error", "timeout"} =>
    /\ ~last_call.returned.raised
    /\ last_call.returned.response = NoResponse
    /\ last_call.returned.message_history = last_call.passed
    /\ last_call.agent = "main" => history["main"] = last_call.passed
    /\ (last_call.agent = "sub" /\ pc["sub"] = "answer") =>
         history["sub"] = last_call.passed

C7_Witness ==
  /\ last_call.outcome = "timeout"
  /\ last_call.agent = "main"
  /\ Len(last_call.passed) >= 3
  /\ pc["main"] = "answer"

ToolMsgsFor(h, i, id) ==
  Cardinality({j \in (i + 1)..(NextAssistant(h, i) - 1) :
                 h[j].role = "tool" /\ h[j].tool_call_id = id})

PendingFor(cs, id) == Cardinality({k \in 1..Len(cs) : cs[k].id = id})

\* C9: in the native dialect every tool_call id of an assistant message has
\* exactly one tool message with that tool_call_id before the next assistant
\* message (in the turn in progress: one such message or one pending call)
C9_NativeIdsAnsweredOnce ==
  dialect = "native" =>
    \A a \in Agents : \A i \in AssistantIdx(history[a]) :
      \A k \in 1..Len(history[a][i].tool_calls) :
        ToolMsgsFor(history[a], i, history[a][i].tool_calls[k].id)
          + (IF i = LastAssistant(history[a])
             THEN PendingFor(pending[a], history[a][i].tool_calls[k].id) ELSE 0) = 1

C9_Witness ==
  /\ dialect = "native"
  /\ \E i \in AssistantIdx(history["main"]) :
       /\ i < LastAssistant(history["main"])
       /\ Len(history["main"][i].tool_calls) = 2
       /\ \A k \in 1..2 :
            ToolMsgsFor(history["main"], i, history["main"][i].tool_calls[k].id) = 1

NumResults(h) == Len(SelectSeq(h, IsResult))

\* C10: an agent never executes more tool calls in its loop than max_tool_calls
C10_ToolCallsWithinCap ==
  \A a \in Agents : NumResults(history[a]) <= max_tool_calls[a]

\* ------------------------------------------------- the retention pass
MaxKeep == 2
MaxRetTurns == 2

SENTINEL == <<"Tool result is omitted to save tokens.">>

\* the loop and the tool manager are not running
IdleLoop ==
  /\ dialect = "framed"
  /\ max_turns = [a \in Agents |-> 1]
  /\ max_tool_calls = [a \in Agents |-> 1]
  /\ history = [a \in Agents |-> <<>>]
  /\ turn_index = [a \in Agents |-> 0]
  /\ tool_budget_used = [a \in Agents |-> 0]
  /\ wall_clock_exhausted = FALSE
  /\ pc = [a \in Agents |-> "idle"]
  /\ pending = [a \in Agents |-> <<>>]
  /\ status = "idle"
  /\ persisted = <<>>
  /\ sub_agent_counter = 0
  /\ current_sub_agent_session_id = NoId
  /\ sessions = <<>>
  /\ model_calls = [a \in Agents |-> 0]
  /\ answer_calls = [a \in Agents |-> 0]
  /\ last_call = NoLastCall
  /\ last_tool = NoLastTool
  /\ tm_impl = "manager_v2"
  /\ tm_server = <<>>
  /\ tm_tool = <<>>
  /\ tm_env = [step |-> "none"]
  /\ tm_out = [kind |-> "none"]

\* a message as the pass reads it: role and content; the content is a string
\* or (Anthropic) a list of blocks.  kind says what the message is.
RetMsg(role, kind, fmt) ==
  [role |-> role, kind |-> kind, content |-> [fmt |-> fmt, text |-> <<kind>>]]

\* one turn of a history: the assistant message and n tool results
RetTurn(n, role, fmt) ==
  <<RetMsg("assistant", "assistant", fmt)>> \o [j \in 1..n |-> RetMsg(role, "tool_result", fmt)]

RECURSIVE RetTurns(_, _, _)
RetTurns(shape, role, fmt) ==
  IF shape = <<>> THEN <<>>
  ELSE RetTurn(Head(shape), role, fmt) \o RetTurns(Tail(shape), role, fmt)

\* the histories a client is called with: the task, the turns of the loop
\* (results as tool or as user messages), and for the final call of the
\* Answer Generator the summarize instruction
RetHistories ==
  {<<RetMsg("user", "task", fmt)>> \o RetTurns(shape, role, fmt)
     \o (IF final THEN <<RetMsg("user", "summarize", fmt)>> ELSE <<>>) :
     shape \in UNION {[1..n -> 0..MaxCallsPerMsg] : n \in 0..MaxRetTurns},
     role \in {"user", "tool"}, fmt \in {"str", "list"}, final \in BOOLEAN}

\* base_client.py, BaseClient._remove_tool_result_from_messages
remove_tool_result_from_messages(messages, keep_tool_result) ==
  LET user_indices == {i \in 1..Len(messages) : messages[i].role \in {"user", "tool"}}
      first_user_idx == Min(user_indices)
      tool_result_indices == user_indices \ {first_user_idx}
      num_tool_results_to_keep ==
        IF keep_tool_result = 0 THEN 0
        ELSE IF keep_tool_result <= Cardinality(tool_result_indices)
        THEN keep_tool_result ELSE Cardinality(tool_result_indices)
      tool_result_indices_to_keep ==
        IF num_tool_results_to_keep > 0
        THEN {i \in tool_result_indices :
                Cardinality({j \in tool_result_indices : j > i}) < num_tool_results_to_keep}
        ELSE {}
      indices_to_keep == {first_user_idx} \cup tool_result_indices_to_keep
  IN IF keep_tool_result = -1 \/ Cardinality(user_indices) <= 1 THEN messages
     ELSE [i \in 1..Len(messages) |->
             IF messages[i].role \in {"user", "tool"} /\ i \notin indices_to_keep
             THEN [messages[i] EXCEPT !.content.text = SENTINEL]
             ELSE messages[i]]

\* the caller's list after a pass that writes into the caller's own dicts
caller_messages_shared(messages, keep_tool_result) ==
  remove_tool_result_from_messages(messages, keep_tool_result)

\* the caller's list after the pass: messages_copy holds a copy of every
\* dict and the pass assigns only to the keys of the copies
caller_messages(messages, keep_tool_result) == messages

RETENTION == "_remove_tool_result_from_messages"

InitRetention ==
  /\ IdleLoop
  /\ NoStream
  /\ fn = RETENTION
  /\ fn_arg \in [messages : RetHistories, keep_tool_result : -2..MaxKeep]
  /\ fn_ret = NotCalled

RemoveToolResults ==
  /\ fn = RETENTION
  /\ fn_ret = NotCalled
  /\ fn_ret' = Returned(remove_tool_result_from_messages(fn_arg.messages,
                                                          fn_arg.keep_tool_result))
  /\ fn_arg' = [fn_arg EXCEPT !.messages = caller_messages(@, fn_arg.keep_tool_result)]
  /\ UNCHANGED <<configVars, loopVars, toolVars, fn, streamVars>>

NextRetention == RemoveToolResults

SpecRetention == InitRetention /\ [][NextRetention]_vars

\* the positions of the tool results of a history
ToolResults(h) == {i \in 1..Len(h) : h[i].kind = "tool_result"}

\* the last n positions of a set of positions
LastN(S, n) == {i \in S : Cardinality({j \in S : j > i}) < n}

\* C11: for k >= 0 the tool results left with their content after the pass are
\* exactly the last min(k, T) tool results of the input, T being the number of
\* its tool results, and the first user message is not rewritten
C11_RetentionKeepsLastK ==
  (fn = RETENTION /\ fn_ret.kind = "return" /\ fn_arg.keep_tool_result >= 0) =>
    LET h == fn_arg.messages
        out == fn_ret.value
        k == fn_arg.keep_tool_result
        T == Cardinality(ToolResults(h))
        kept == {i \in ToolResults(h) : out[i].content.text # SENTINEL}
    IN /\ Cardinality(kept) = (IF k <= T THEN k ELSE T)
       /\ kept = LastN(ToolResults(h), k)
       /\ \A i \in kept : out[i] = h[i]
       /\ out[1] = h[1]

\* C12: the pass leaves every message that is not a tool result as it was
C12_RetentionRewritesOnlyToolResults ==
  (fn = RETENTION /\ fn_ret.kind = "return") =>
    \A i \in 1..Len(fn_arg.messages) :
      fn_arg.messages[i].kind # "tool_result" => fn_ret.value[i] = fn_arg.messages[i]

\* ------------------------------------------------- boxed answers
MaxSegments == 3

BOXED == "\\boxed"
LB == "{"
RB == "}"
ESC_RB == "\\}"

\* tokens that are runs of word characters: \boxed followed by one of them
\* is not matched by \\boxed\b
WordTokens == {"pre", "X", "Y", "a", "b", "n", "u", "unknown"}

FORMAT_ERROR_MESSAGE == <<"FORMAT_ERROR_MESSAGE">>

\* the contents of a box
BoxContents ==
  {<<"X">>, <<WS, "Y", WS>>, <<"?">>, <<WS, "?", WS>>, <<>>, <<"unknown">>,
   <<"a", LB, "n", RB, "b">>, <<"a", ESC_RB, "b">>}

\* the pieces of a final answer text: plain text, complete boxes, \boxed { with
\* whitespace, boxes that are never closed, \boxed without a brace, a stray }
Segments ==
  {<<"pre">>, <<WS>>, <<BOXED>>, <<RB>>}
  \cup {<<BOXED, LB>> \o c \o <<RB>> : c \in BoxContents}
  \cup {<<BOXED, WS, LB, "X", RB>>}
  \cup {<<BOXED, LB>> \o c : c \in {<<>>, <<"u", WS>>}}

RECURSIVE Concat(_)
Concat(ss) == IF ss = <<>> THEN <<>> ELSE Head(ss) \o Concat(Tail(ss))

Texts == {Concat(ss) : ss \in UNION {[1..n -> Segments] : n \in 0..MaxSegments}}

\* _BOXED_RE matches at p
IsBoxedAt(t, p) ==
  /\ At(t, p, BOXED)
  /\ p = Len(t) \/ t[p + 1] \notin WordTokens

\* _BOXED_RE.search(text, i): the first match at or after i, 0 when none
SearchBoxed(t, i) ==
  LET M == {p \in i..Len(t) : IsBoxedAt(t, p)}
  IN IF M = {} THEN 0 ELSE Min(M)

\* depth after reading t[j..k], t[j] being the opening brace; escaped braces
\* and the characters of \boxed do not count
Depth(t, j, k) ==
  Cardinality({x \in j..k : t[x] = LB}) - Cardinality({x \in j..k : t[x] = RB})

\* the position at which the depth returns to zero, 0 when it never does
ClosingBrace(t, j) ==
  LET K == {k \in (j + 1)..Len(t) : Depth(t, j, k) = 0}
  IN IF K = {} THEN 0 ELSE Min(K)

NoBoxed == [found |-> FALSE, text |-> <<>>]

\* the while loop of _extract_boxed_content from position i, last_result = last
RECURSIVE ScanBoxed(_, _, _)
ScanBoxed(t, i, last) ==
  LET p == SearchBoxed(t, i)
      j == SkipWs(t, p + 1)
      k == ClosingBrace(t, j)
  IN IF p = 0 THEN last
     ELSE IF ~At(t, j, LB) THEN ScanBoxed(t, j, last)
     ELSE IF k # 0 THEN ScanBoxed(t, k + 1, [found |-> TRUE, text |-> Slice(t, j + 1, k - 1)])
     ELSE ScanBoxed(t, Len(t) + 1, [found |-> TRUE, text |-> Slice(t, j + 1, Len(t))])

black_list ==
  {<<"?">>, <<"?", "?">>, <<"?", "?", "?">>, <<"...">>, <<"unknown">>}

\* output_formatter.py, OutputFormatter._extract_boxed_content
extract_boxed_content(text) ==
  LET last_result == ScanBoxed(text, 1, NoBoxed)
  IN IF ~last_result.found \/ last_result.text \in black_list
     THEN <<>> ELSE Strip(last_result.text)

\* output_formatter.py, OutputFormatter.format_final_summary_and_log: the
\* boxed_result it returns
format_final_summary_and_log(final_answer_text) ==
  LET boxed_result == extract_boxed_content(final_answer_text)
  IN IF boxed_result # <<>> THEN boxed_result
     ELSE IF final_answer_text # <<>> THEN FORMAT_ERROR_MESSAGE
     ELSE boxed_result

EXTRACT_BOXED == "_extract_boxed_content"
FORMAT_FINAL == "format_final_summary_and_log"

InitBoxed ==
  /\ IdleLoop
  /\ NoStream
  /\ fn \in {EXTRACT_BOXED, FORMAT_FINAL}
  /\ fn_arg \in [text : Texts]
  /\ fn_ret = NotCalled

ExtractBoxed ==
  /\ fn = EXTRACT_BOXED
  /\ fn_ret = NotCalled
  /\ fn_ret' = Returned(extract_boxed_content(fn_arg.text))
  /\ UNCHANGED <<configVars, loopVars, toolVars, fn, fn_arg, streamVars>>

FormatFinal ==
  /\ fn = FORMAT_FINAL
  /\ fn_ret = NotCalled
  /\ fn_ret' = Returned(format_final_summary_and_log(fn_arg.text))
  /\ UNCHANGED <<configVars, loopVars, toolVars, fn, fn_arg, streamVars>>

NextBoxed == ExtractBoxed \/ FormatFinal

SpecBoxed == InitBoxed /\ [][NextBoxed]_vars

\* the positions of the \boxed{ of a text, and the brace of each
BoxOpens(t) == {p \in 1..Len(t) : IsBoxedAt(t, p) /\ At(t, SkipWs(t, p + 1), LB)}

BraceOf(t, p) == SkipWs(t, p + 1)

\* the \boxed{ at p has its closing brace
IsCompleteBox(t, p) == ClosingBrace(t, BraceOf(t, p)) # 0

\* the \boxed{ at p lies inside a complete box that starts earlier
IsNestedBox(t, p) ==
  \E q \in BoxOpens(t) : q < p /\ ClosingBrace(t, BraceOf(t, q)) > p

BoxContent(t, p) == Slice(t, BraceOf(t, p) + 1, ClosingBrace(t, BraceOf(t, p)) - 1)

\* C13: when the last \boxed{ of the text is a complete \boxed{...} (not inside
\* another complete box) whose content is not a blacklisted placeholder, the
\* extractor returns the trimmed content of that occurrence, whatever precedes it
C13_ReturnsLastBoxed ==
  (fn = EXTRACT_BOXED /\ fn_ret.kind = "return" /\ BoxOpens(fn_arg.text) # {}) =>
    LET t == fn_arg.text
        p == Max(BoxOpens(t))
    IN (IsCompleteBox(t, p) /\ ~IsNestedBox(t, p) /\ BoxContent(t, p) \notin black_list)
         => fn_ret.value = Strip(BoxContent(t, p))

\* C14: the boxed answer returned by format_final_summary_and_log is never
\* the empty string: a text without a usable boxed answer gives FORMAT_ERROR_MESSAGE
C14_NoBoxedGivesFormatError ==
  (fn = FORMAT_FINAL /\ fn_ret.kind = "return") =>
    /\ fn_ret.value # <<>>
    /\ extract_boxed_content(fn_arg.text) = <<>> => fn_ret.value = FORMAT_ERROR_MESSAGE

\* ------------------------------------------------- the response parser alone
MaxBlocks == 3

\* a framed block with the given server name, tool name and arguments text
FBlock(s, t, a) ==
  <<USE_O, WS, SN_O>> \o s \o <<SN_C, WS, TN_O>> \o t \o <<TN_C, WS, ARG_O, WS>> \o a
    \o <<WS, ARG_C, WS, USE_C>>

\* the pieces of a framed response.  complete: the piece is a block with all
\* its closing tags; server_name, tool_name: the names between its tags
FramedPieces ==
  {[text |-> <<"thought", WS>>, complete |-> FALSE, server_name |-> <<>>, tool_name |-> <<>>],
   [text |-> FBlock(TOOL_PYTHON, RUN_PYTHON_CODE, <<"{json}">>), complete |-> TRUE,
    server_name |-> TOOL_PYTHON, tool_name |-> RUN_PYTHON_CODE],
   [text |-> FBlock(<<WS, "A", WS>>, <<WS, "t1">>, <<"{bad">>), complete |-> TRUE,
    server_name |-> <<WS, "A", WS>>, tool_name |-> <<WS, "t1">>],
   [text |-> <<USE_O, SN_O, "s", SN_C, TN_O, "t", TN_C, ARG_O, "{json}", ARG_C, USE_C>>,
    complete |-> TRUE, server_name |-> <<"s">>, tool_name |-> <<"t">>],
   [text |-> CutBlock(PythonCall), complete |-> FALSE,
    server_name |-> TOOL_PYTHON, tool_name |-> RUN_PYTHON_CODE],
   [text |-> <<USE_O, WS, SN_O, "B", SN_C, WS, TN_O, "t2", TN_C, WS, ARG_O, "{json}", ARG_C, WS>>,
    complete |-> FALSE, server_name |-> <<"B">>, tool_name |-> <<"t2">>],
   [text |-> <<USE_O, WS, SN_O, "C", WS>>, complete |-> FALSE,
    server_name |-> <<"C">>, tool_name |-> <<>>]}

PieceSeqs == UNION {[1..n -> FramedPieces] : n \in 0..MaxBlocks}

PieceTexts(ps) == Concat([k \in 1..Len(ps) |-> ps[k].text])

\* the value of an arguments field: a string, None (the field is missing) or
\* an object that is not a string
StrArg(x) == [type |-> "str", str |-> x]
NoneArg == [type |-> "none", str |-> <<>>]
DictArg == [type |-> "dict", str |-> <<>>]
ArgValues == {StrArg(<<"{json}">>), StrArg(<<"{bad">>), StrArg(<<>>), NoneArg, DictArg}

NativeNames == {TOOL_PYTHON \o <<DASH>> \o RUN_PYTHON_CODE, <<"nodash">>}

\* the tool_call objects of a completion response
NativeItems == [name : NativeNames, arguments : ArgValues, id : {CallId(1)}]

\* the output items of a response-API response
OutputItems ==
  [type : {"function_call"}, name : NativeNames, arguments : ArgValues, call_id : {CallId(1)}]
  \cup {[type |-> "message", name |-> <<>>, arguments |-> NoneArg, call_id |-> NoId]}

ParserInputs ==
  {[shape |-> "text", pieces |-> ps, text |-> PieceTexts(ps), items |-> <<>>] : ps \in PieceSeqs}
  \cup {[shape |-> sh, pieces |-> <<>>, text |-> <<>>, items |-> its] :
          sh \in {"list"}, its \in UNION {[1..n -> NativeItems] : n \in 0..MaxCallsPerMsg}}
  \cup {[shape |-> sh, pieces |-> <<>>, text |-> <<>>, items |-> its] :
          sh \in {"dict"}, its \in UNION {[1..n -> OutputItems] : n \in 0..MaxCallsPerMsg}}

\* json.loads raises TypeError, which no handler of the parser catches, when
\* its argument is not a string
JsonLoadsTypeError(items) == \E k \in 1..Len(items) : items[k].arguments.type # "str"

\* the dict branch: one call per function_call item, arguments by safe_json_loads
ParseOutput(items) ==
  LET calls == SelectSeq(items, LAMBDA it : it.type = "function_call")
  IN [k \in 1..Len(calls) |->
        [server_name |-> SplitName(calls[k].name).server_name,
         tool_name |-> SplitName(calls[k].name).tool_name,
         arguments |-> safe_json_loads(calls[k].arguments.str),
         id |-> calls[k].call_id]]

\* parse_llm_response_for_tool_calls on any response of the three shapes: the
\* list of calls it returns, or the exception it ends with
ParseOutcome(resp) ==
  IF resp.shape = "dict"
  THEN IF JsonLoadsTypeError(SelectSeq(resp.items, LAMBDA it : it.type = "function_call"))
       THEN Raised(<<"TypeError">>)
       ELSE Returned(ParseOutput(resp.items))
  ELSE IF resp.shape = "list"
  THEN IF JsonLoadsTypeError(resp.items)
       THEN Raised(<<"TypeError">>)
       ELSE Returned(ParseNative([k \in 1..Len(resp.items) |->
                                    [name |-> resp.items[k].name,
                                     arguments |-> resp.items[k].arguments.str,
                                     id |-> resp.items[k].id]]))
  ELSE Returned(ParseFramed(resp.text))

PARSE == "parse_llm_response_for_tool_calls"

InitParser ==
  /\ IdleLoop
  /\ NoStream
  /\ fn = PARSE
  /\ fn_arg \in ParserInputs
  /\ fn_ret = NotCalled

ParseResponse ==
  /\ fn = PARSE
  /\ fn_ret = NotCalled
  /\ fn_ret' = ParseOutcome(fn_arg)
  /\ UNCHANGED <<configVars, loopVars, toolVars, fn, fn_arg, streamVars>>

NextParser == ParseResponse

SpecParser == InitParser /\ [][NextParser]_vars

IsCompletePiece(p) == p.complete

\* the trimmed names of the complete blocks of a piece list, in order
CompleteBlocks(ps) ==
  LET cs == SelectSeq(ps, IsCompletePiece)
  IN [k \in 1..Len(cs) |-> [server_name |-> Strip(cs[k].server_name),
                            tool_name |-> Strip(cs[k].tool_name)]]

CallNames(calls) ==
  [k \in 1..Len(calls) |-> [server_name |-> calls[k].server_name,
                            tool_name |-> calls[k].tool_name]]

\* C15: from framed text the parser returns one call per complete block, in
\* order, with the block's trimmed names, and none for an incomplete block
C15_OneCallPerCompleteBlock ==
  (fn = PARSE /\ fn_arg.shape = "text" /\ fn_ret.kind = "return") =>
    CallNames(fn_ret.value) = CompleteBlocks(fn_arg.pieces)

\* a string the parser cannot parse
Unparseable(a) == a.type = "str" /\ (a.str = <<>> \/ \E i \in 1..Len(a.str) : a.str[i] \notin ValidJson)

\* C16: parsing never raises, and every call of a native response is emitted,
\* a call whose arguments cannot be parsed with the {error, raw} object
C16_ParsingNeverRaises ==
  (fn = PARSE /\ fn_ret.kind # "none") =>
    /\ fn_ret.kind = "return"
    /\ fn_arg.shape = "list" =>
         /\ Len(fn_ret.value) = Len(fn_arg.items)
         /\ \A k \in 1..Len(fn_arg.items) :
              Unparseable(fn_arg.items[k].arguments) =>
                fn_ret.value[k].arguments =
                  [error |-> FailedToParse, raw |-> fn_arg.items[k].arguments.str]

\* ------------------------------------------------- the name-correction pass
MaxFixBlocks == 2

GOOGLE_SEARCH == <<"google_search">>
SCRAPE_AND_EXTRACT_INFO == <<"scrape_and_extract_info">>
TARGET_TOOLS == {RUN_PYTHON_CODE, GOOGLE_SEARCH, SCRAPE_AND_EXTRACT_INFO}
PYTHON == <<"python">>
PYTHON_CODE == <<"python_code">>

\* a loaded tool of a server, and a tool that failed to load
\* description: the lines of the tool's description after its first line
DescribedTool(name, description) == [kind |-> "tool", name |-> name, description |-> description]

LoadedTool(name) == DescribedTool(name, <<>>)
FailedTool == [kind |-> "error", name |-> <<>>]

Server(name, tools) == [name |-> name, tools |-> tools]

\* the server lists an agent is configured with
ServerLists ==
  {<<>>,
   <<Server(TOOL_PYTHON, <<LoadedTool(RUN_PYTHON_CODE)>>)>>,
   <<Server(TOOL_PYTHON, <<LoadedTool(RUN_PYTHON_CODE)>>),
     Server(TOOL_SEARCH, <<LoadedTool(GOOGLE_SEARCH), LoadedTool(SCRAPE_AND_EXTRACT_INFO)>>)>>,
   <<Server(TOOL_SEARCH, <<FailedTool, LoadedTool(GOOGLE_SEARCH)>>)>>,
   <<Server(TOOL_PYTHON, <<LoadedTool(PYTHON)>>)>>}

\* a line that starts with neither heading form
TextLine == [h |-> "text", name |-> <<>>]

\* the lines of the prompt for the tools of one server.  A tool that loaded
\* gives its heading, "Description: " with the first line of the description,
\* the further lines of the description as they are, and "Input JSON schema: "
RECURSIVE ToolLines(_)
ToolLines(tools) ==
  IF tools = <<>> THEN <<>>
  ELSE (IF Head(tools).kind = "error" THEN <<>>
        ELSE <<[h |-> "tool", name |-> Head(tools).name], TextLine>>
               \o Head(tools).description \o <<TextLine>>) \o ToolLines(Tail(tools))

\* prompt_utils.py, generate_mcp_system_prompt: the lines of the server section
RECURSIVE generate_mcp_system_prompt(_)
generate_mcp_system_prompt(mcp_servers) ==
  IF mcp_servers = <<>> THEN <<>>
  ELSE <<[h |-> "server", name |-> Head(mcp_servers).name]>>
         \o ToolLines(Head(mcp_servers).tools)
         \o generate_mcp_system_prompt(Tail(mcp_servers))

\* mapping[tool_name] = server: a dict, as the list of its items in insertion order
DictSet(mapping, tool_name, server) ==
  IF \E k \in 1..Len(mapping) : mapping[k].tool_name = tool_name
  THEN [k \in 1..Len(mapping) |->
          IF mapping[k].tool_name = tool_name
          THEN [tool_name |-> tool_name, server |-> server] ELSE mapping[k]]
  ELSE Append(mapping, [tool_name |-> tool_name, server |-> server])

InMapping(mapping, tool_name) == \E k \in 1..Len(mapping) : mapping[k].tool_name = tool_name

RECURSIVE MappingFrom(_, _, _)
MappingFrom(lines, current_server, mapping) ==
  IF lines = <<>> THEN mapping
  ELSE LET l == Head(lines)
       IN IF l.h = "server" THEN MappingFrom(Tail(lines), Strip(l.name), mapping)
          ELSE IF l.h = "tool" /\ current_server # NULL /\ Strip(l.name) \in TARGET_TOOLS
          THEN MappingFrom(Tail(lines), current_server,
                           DictSet(mapping, Strip(l.name), current_server))
          ELSE MappingFrom(Tail(lines), current_server, mapping)

\* parsing_utils.py, parse_tool_server_mapping
parse_tool_server_mapping(system_prompt) == MappingFrom(system_prompt, NULL, <<>>)

\* pat occurs in t at position i; pat occurs in t
OccursAt(t, i, pat) == i + Len(pat) - 1 <= Len(t) /\ Slice(t, i, i + Len(pat) - 1) = pat

Occurs(t, pat) == \E i \in 1..Len(t) : OccursAt(t, i, pat)

\* str.replace(pat, rep) from position i
RECURSIVE Replace(_, _, _, _)
Replace(t, i, pat, rep) ==
  IF i > Len(t) THEN <<>>
  ELSE IF OccursAt(t, i, pat) THEN rep \o Replace(t, i + Len(pat), pat, rep)
  ELSE <<t[i]>> \o Replace(t, i + 1, pat, rep)

ToolTag(name) == <<TN_O>> \o name \o <<TN_C>>

ServerTag(name) == <<SN_O>> \o name \o <<SN_C>>

Tags == {USE_O, USE_C, SN_O, SN_C, TN_O, TN_C, ARG_O, ARG_C}

\* <server_name>[^<]+</server_name>(\s*<tool_tag>) matches at i: the position
\* after the match, 0 when it does not match
ServerMatchEnd(t, i, tool_tag) ==
  LET stops == {e \in (i + 1)..Len(t) : t[e] \in Tags}
      e == IF stops = {} THEN 0 ELSE Min(stops)
      w == SkipWs(t, e + 1)
  IN IF At(t, i, SN_O) /\ e >= i + 2 /\ t[e] = SN_C /\ OccursAt(t, w, tool_tag)
     THEN w + Len(tool_tag) ELSE 0

\* re.sub of that pattern by the correct server tag and the kept group, from i
RECURSIVE SubServer(_, _, _, _)
SubServer(t, i, tool_tag, correct_server_tag) ==
  IF i > Len(t) THEN <<>>
  ELSE LET m == ServerMatchEnd(t, i, tool_tag)
           e == Min({x \in (i + 1)..Len(t) : t[x] \in Tags})
       IN IF m # 0
          THEN correct_server_tag \o Slice(t, e + 1, m - 1)
                 \o SubServer(t, m, tool_tag, correct_server_tag)
          ELSE <<t[i]>> \o SubServer(t, i + 1, tool_tag, correct_server_tag)

\* the renaming without the test that run_python_code is in the table
RenamePythonAlways(text, mapping) ==
  Replace(Replace(text, 1, ToolTag(PYTHON), ToolTag(RUN_PYTHON_CODE)),
          1, ToolTag(PYTHON_CODE), ToolTag(RUN_PYTHON_CODE))

\* the special case: python and python_code are renamed to run_python_code
RenamePython(text, mapping) ==
  IF InMapping(mapping, RUN_PYTHON_CODE)
  THEN Replace(Replace(text, 1, ToolTag(PYTHON), ToolTag(RUN_PYTHON_CODE)),
               1, ToolTag(PYTHON_CODE), ToolTag(RUN_PYTHON_CODE))
  ELSE text

\* the loop over mapping.items(): the server name of each target tool
RECURSIVE FixServers(_, _)
FixServers(text, items) ==
  IF items = <<>> THEN text
  ELSE LET tool_tag == ToolTag(Head(items).tool_name)
           correct_server_tag == ServerTag(Head(items).server)
       IN IF ~Occurs(text, tool_tag) \/ Occurs(text, correct_server_tag)
          THEN FixServers(text, Tail(items))
          ELSE FixServers(SubServer(text, 1, tool_tag, correct_server_tag), Tail(items))

\* parsing_utils.py, fix_server_name_in_text, with the cached mapping
fix_server_name_in_text(text, mapping) ==
  IF mapping = <<>> THEN text
  ELSE FixServers(RenamePython(text, mapping), mapping)

\* ------------------------------------------------- the name-correction pass alone
FIX_SERVER_NAME == "fix_server_name_in_text"

EmittedServers == {TOOL_PYTHON, TOOL_SEARCH, <<"wrong">>}

EmittedTools == {RUN_PYTHON_CODE, PYTHON, PYTHON_CODE, GOOGLE_SEARCH, <<"other_tool">>}

\* arguments whose JSON text quotes a tool-name tag
QuotingArguments == <<"{json}", TN_O>> \o PYTHON \o <<TN_C, "{json}">>

EmittedBlocks ==
  {FBlock(s, t, <<"{json}">>) : s \in EmittedServers, t \in EmittedTools}
    \cup {FBlock(<<"wrong">>, <<"other_tool">>, QuotingArguments)}

\* the framed responses of at most MaxFixBlocks blocks
EmittedTexts ==
  {Concat(bs) : bs \in UNION {[1..n -> EmittedBlocks] : n \in 0..MaxFixBlocks}}

\* mapping[tool_name]
DictGet(mapping, tool_name) ==
  mapping[CHOOSE k \in 1..Len(mapping) : mapping[k].tool_name = tool_name].server

\* the table of the agent whose servers are mcp_servers: set_tool_server_mapping
\* applied to the prompt generated for it
TableOf(mcp_servers) == parse_tool_server_mapping(generate_mcp_system_prompt(mcp_servers))

InitNameFix ==
  /\ IdleLoop
  /\ NoStream
  /\ fn = FIX_SERVER_NAME
  /\ fn_arg \in [mcp_servers : ServerLists, text : EmittedTexts]
  /\ fn_ret = NotCalled

FixServerName ==
  /\ fn = FIX_SERVER_NAME
  /\ fn_ret = NotCalled
  /\ fn_ret' = Returned(fix_server_name_in_text(fn_arg.text, TableOf(fn_arg.mcp_servers)))
  /\ UNCHANGED <<configVars, loopVars, toolVars, fn, fn_arg, streamVars>>

NextNameFix == FixServerName

SpecNameFix == InitNameFix /\ [][NextNameFix]_vars

\* C17: after the name-correction pass every framed block whose tool_name is
\* an allow-listed tool of the table carries the table's server_name, in every
\* block of the response and whatever server names the other blocks carry.
C17_AllowListedBlocksCarryCanonicalServer ==
  (fn = FIX_SERVER_NAME /\ fn_ret # NotCalled) =>
    LET mapping == TableOf(fn_arg.mcp_servers)
        calls == ParseFramed(fn_ret.value)
    IN \A k \in 1..Len(calls) :
         InMapping(mapping, calls[k].tool_name)
           => calls[k].server_name = DictGet(mapping, calls[k].tool_name)

\* the system prompt of the agent declares a tool named run_python_code
DeclaresRunPythonCode(mcp_servers) ==
  LET lines == generate_mcp_system_prompt(mcp_servers)
  IN \E k \in 1..Len(lines) : lines[k].h = "tool" /\ lines[k].name = RUN_PYTHON_CODE

MaxStreamTurns == 2
MaxDeltas == 1
MaxStreamCalls == 2
MaxDelegations == 1

\* the constant every identifier would be without a fresh draw
uuid4_constant(n) == <<"uuid", 0>>

\* str(uuid.uuid4()): the n-th identifier drawn in the run
uuid4(n) == <<"uuid", n>>

\* StreamHandler.update: one {"event", "data"} message put on the queue, none
\* when the handler has no queue
update(q, streaming_enabled, event_type, data) ==
  IF streaming_enabled THEN Append(q, [event |-> event_type, data |-> data]) ELSE q

start_workflow(q, on, user_input, workflow_id) ==
  update(q, on, "start_of_workflow", [workflow_id |-> workflow_id, input |-> user_input])

end_workflow(q, on, workflow_id) ==
  update(q, on, "end_of_workflow", [workflow_id |-> workflow_id])

start_agent(q, on, agent_name, display_name, agent_id) ==
  update(q, on, "start_of_agent",
         [agent_name |-> agent_name, display_name |-> display_name, agent_id |-> agent_id])

end_agent(q, on, agent_name, agent_id) ==
  update(q, on, "end_of_agent", [agent_name |-> agent_name, agent_id |-> agent_id])

start_llm(q, on, agent_name, display_name) ==
  update(q, on, "start_of_llm", [agent_name |-> agent_name, display_name |-> display_name])

end_llm(q, on, agent_name) == update(q, on, "end_of_llm", [agent_name |-> agent_name])

message(q, on, message_id, delta_content) ==
  update(q, on, "message", [message_id |-> message_id, delta |-> [content |-> delta_content]])

\* a payload is a dict: the list of its items, each <<key, value>>, in order
ArgumentsPayload == <<<<"code", <<"v">>>>, <<"timeout", <<"v">>>>>>

ResultPayload == <<<<"result", <<"v">>>>>>

ErrorPayload(error) == <<<<"error", error>>>>

TextPayload == <<<<"text", <<"a">>>>, <<"title", <<"b">>>>>>

RECURSIVE DeltaEvents(_, _, _, _, _)
DeltaEvents(q, on, tool_name, items, tool_call_id) ==
  IF items = <<>> THEN q
  ELSE DeltaEvents(update(q, on, "tool_call",
                          [tool_call_id |-> tool_call_id, tool_name |-> tool_name,
                           delta_input |-> <<Head(items)>>]),
                   on, tool_name, Tail(items), tool_call_id)

\* tool_call that draws a fresh id also when an existing id is passed
tool_call_ignoring_id(q, on, tool_name, payload, fresh_id, tool_call_id) ==
  update(q, on, "tool_call",
         [tool_call_id |-> fresh_id, tool_name |-> tool_name, tool_input |-> payload])

\* tool_call with streaming = True: one event per key of the payload
tool_call_streaming(q, on, tool_name, payload, fresh_id, tool_call_id) ==
  DeltaEvents(q, on, tool_name, payload,
              IF tool_call_id = NULL THEN fresh_id ELSE tool_call_id)

\* tool_call with streaming = False: one event with the complete payload
tool_call(q, on, tool_name, payload, fresh_id, tool_call_id) ==
  update(q, on, "tool_call",
         [tool_call_id |-> IF tool_call_id = NULL THEN fresh_id ELSE tool_call_id,
          tool_name |-> tool_name, tool_input |-> payload])

\* the marker of the end of the stream: None on the queue
END_OF_STREAM == [event |-> "None", data |-> NULL]

SHOW_ERROR == <<"show_error">>

\* show_error that puts the marker before its event
show_error_marker_first(q, on, error, fresh_id) ==
  tool_call(IF on THEN Append(q, END_OF_STREAM) ELSE q, on, SHOW_ERROR,
            ErrorPayload(error), fresh_id, NULL)

\* StreamHandler.show_error: the show_error tool_call event, then None
show_error(q, on, error, fresh_id) ==
  LET q1 == tool_call(q, on, SHOW_ERROR, ErrorPayload(error), fresh_id, NULL)
  IN IF on THEN Append(q1, END_OF_STREAM) ELSE q1

\* ------------------------------------------------- the publishing run
\* the tool calls one model response of an agent can emit
StreamTools == <<RUN_PYTHON_CODE, GOOGLE_SEARCH, SCRAPE_AND_EXTRACT_INFO, <<"other_tool">>>>

\* responses calling the first n tools in order
PlainCalls == {SubSeq(StreamTools, 1, n) : n \in 0..MaxStreamCalls}

\* the same with one call replaced by a delegation to the sub-agent
DelegatingCalls ==
  UNION {{[c EXCEPT ![k] = AGENT_BROWSING] : k \in 1..Len(c)} : c \in PlainCalls}

EmittedCalls(agent_name, delegations) ==
  IF agent_name = "main" /\ delegations < MaxDelegations
  THEN PlainCalls \cup DelegatingCalls ELSE PlainCalls

\* the turns an agent may take
StreamTurns(agent_name) == IF agent_name = "main" THEN MaxStreamTurns ELSE MaxSubTurns

\* an agent of the run: its position in its turn
Frame(agent_name, agent_id) ==
  [agent_name |-> agent_name, agent_id |-> agent_id, pc |-> "turn", turns |-> 0,
   deltas |-> 0, message_id |-> NULL, pending |-> <<>>]

\* where an agent goes when the calls of its turn are published: the next
\* turn, or its end when the response had no call or its turns are used up
AfterCalls(f, had_calls) ==
  IF ~had_calls \/ f.turns >= StreamTurns(f.agent_name) THEN "ending" ELSE "turn"

Top == stream_run.frames[Len(stream_run.frames)]

SetTop(f) == [stream_run.frames EXCEPT ![Len(stream_run.frames)] = f]

\* the agent_id each new event of the queue is attributed to
By(q, agent_id) ==
  stream_run.by \o [k \in 1..(Len(q) - Len(stream_queue)) |-> agent_id]

InitStream ==
  /\ IdleLoop
  /\ NoUnit
  /\ stream_queue = <<>>
  /\ \E on \in BOOLEAN :
       stream_run = [phase |-> "new", streaming |-> on, workflow_id |-> NULL,
                     next_uuid |-> 1, frames |-> <<>>, delegations |-> 0,
                     by |-> <<>>, llm_log |-> <<>>]

StartWorkflow ==
  /\ stream_run.phase = "new"
  /\ LET id == uuid4(stream_run.next_uuid)
         q == start_workflow(stream_queue, stream_run.streaming, <<"task">>, id)
     IN /\ stream_queue' = q
        /\ stream_run' = [stream_run EXCEPT !.phase = "workflow", !.workflow_id = id,
                                            !.next_uuid = @ + 1, !.by = By(q, NULL)]
  /\ UNCHANGED <<configVars, loopVars, toolVars, unitVars>>

StartMainAgent ==
  /\ stream_run.phase = "workflow"
  /\ LET id == uuid4(stream_run.next_uuid)
         q == start_agent(stream_queue, stream_run.streaming, "main", NULL, id)
     IN /\ stream_queue' = q
        /\ stream_run' = [stream_run EXCEPT !.phase = "agents", !.next_uuid = @ + 1,
                                            !.frames = <<Frame("main", id)>>,
                                            !.by = By(q, id)]
  /\ UNCHANGED <<configVars, loopVars, toolVars, unitVars>>

StartLLM ==
  /\ stream_run.phase = "agents"
  /\ Top.pc = "turn"
  /\ LET q == start_llm(stream_queue, stream_run.streaming, Top.agent_name, NULL)
     IN /\ stream_queue' = q
        /\ stream_run' = [stream_run EXCEPT
                            !.next_uuid = @ + 1,
                            !.frames = SetTop([Top EXCEPT !.pc = "llm", !.deltas = 0,
                                                 !.message_id = uuid4(stream_run.next_uuid)]),
                            !.by = By(q, Top.agent_id)]
  /\ UNCHANGED <<configVars, loopVars, toolVars, unitVars>>

Message ==
  /\ stream_run.phase = "agents"
  /\ Top.pc = "llm"
  /\ Top.deltas < MaxDeltas
  /\ LET q == message(stream_queue, stream_run.streaming, Top.message_id, <<"delta">>)
     IN /\ stream_queue' = q
        /\ stream_run' = [stream_run EXCEPT
                            !.frames = SetTop([Top EXCEPT !.deltas = @ + 1]),
                            !.by = By(q, Top.agent_id)]
  /\ UNCHANGED <<configVars, loopVars, toolVars, unitVars>>

EndLLM ==
  /\ stream_run.phase = "agents"
  /\ Top.pc = "llm"
  /\ \E calls \in EmittedCalls(Top.agent_name, stream_run.delegations) :
       LET q == end_llm(stream_queue, stream_run.streaming, Top.agent_name)
           f == [Top EXCEPT !.turns = @ + 1, !.pending = calls]
       IN /\ stream_queue' = q
          /\ stream_run' = [stream_run EXCEPT
                              !.frames = SetTop([f EXCEPT !.pc = IF calls = <<>>
                                                                  THEN AfterCalls(f, FALSE)
                                                                  ELSE "tools"]),
                              !.by = By(q, Top.agent_id),
                              !.llm_log = Append(@, [agent_id |-> Top.agent_id,
                                                     tool_calls |-> calls])]
  /\ UNCHANGED <<configVars, loopVars, toolVars, unitVars>>

ToolCall ==
  /\ stream_run.phase = "agents"
  /\ Top.pc = "tools"
  /\ LET tool_name == Head(Top.pending)
         q == tool_call(stream_queue, stream_run.streaming, tool_name, ArgumentsPayload,
                        uuid4(stream_run.next_uuid), NULL)
         f == [Top EXCEPT !.pending = Tail(@)]
     IN /\ stream_queue' = q
        /\ stream_run' = [stream_run EXCEPT
                            !.next_uuid = @ + 1,
                            !.frames = SetTop([f EXCEPT !.pc =
                                                 IF tool_name = AGENT_BROWSING THEN "delegating"
                                                 ELSE IF f.pending = <<>> THEN AfterCalls(f, TRUE)
                                                 ELSE "tools"]),
                            !.by = By(q, Top.agent_id)]
  /\ UNCHANGED <<configVars, loopVars, toolVars, unitVars>>

StartSubAgent ==
  /\ stream_run.phase = "agents"
  /\ Top.pc = "delegating"
  /\ Len(stream_run.frames) = 1
  /\ LET id == uuid4(stream_run.next_uuid)
         q == start_agent(stream_queue, stream_run.streaming, "sub", NULL, id)
     IN /\ stream_queue' = q
        /\ stream_run' = [stream_run EXCEPT !.next_uuid = @ + 1,
                                            !.delegations = @ + 1,
                                            !.frames = Append(@, Frame("sub", id)),
                                            !.by = By(q, id)]
  /\ UNCHANGED <<configVars, loopVars, toolVars, unitVars>>

EndAgent ==
  /\ stream_run.phase = "agents"
  /\ Top.pc = "ending"
  /\ LET q == end_agent(stream_queue, stream_run.streaming, Top.agent_name, Top.agent_id)
         rest == SubSeq(stream_run.frames, 1, Len(stream_run.frames) - 1)
         parent == rest[Len(rest)]
     IN /\ stream_queue' = q
        /\ stream_run' = [stream_run EXCEPT
                            !.phase = IF rest = <<>> THEN "closing" ELSE "agents",
                            !.frames = IF rest = <<>> THEN rest
                                       ELSE [rest EXCEPT ![Len(rest)] =
                                               [parent EXCEPT !.pc =
                                                  IF parent.pending = <<>>
                                                  THEN AfterCalls(parent, TRUE) ELSE "tools"]],
                            !.by = By(q, Top.agent_id)]
  /\ UNCHANGED <<configVars, loopVars, toolVars, unitVars>>

EndWorkflow ==
  /\ stream_run.phase = "closing"
  /\ LET q == end_workflow(stream_queue, stream_run.streaming, stream_run.workflow_id)
     IN /\ stream_queue' = q
        /\ stream_run' = [stream_run EXCEPT !.phase = "done", !.by = By(q, NULL)]
  /\ UNCHANGED <<configVars, loopVars, toolVars, unitVars>>

\* the run fails: the error is shown and the stream is ended
ShowError ==
  /\ stream_run.phase \in {"workflow", "agents", "closing"}
  /\ LET q == show_error(stream_queue, stream_run.streaming, <<"error">>,
                         uuid4(stream_run.next_uuid))
     IN /\ stream_queue' = q
        /\ stream_run' = [stream_run EXCEPT !.phase = "failed", !.next_uuid = @ + 1,
                                            !.by = By(q, NULL)]
  /\ UNCHANGED <<configVars, loopVars, toolVars, unitVars>>

NextStream ==
  \/ ShowError
  \/ StartWorkflow
  \/ StartMainAgent
  \/ StartLLM
  \/ Message
  \/ EndLLM
  \/ ToolCall
  \/ StartSubAgent
  \/ EndAgent
  \/ EndWorkflow

SpecStream == InitStream /\ [][NextStream]_vars

\* ------------------------------------------------- the order of the stream
\* positions of the events of agent a, and the n-th of a set of positions
EventsOf(a) == {i \in 1..Len(stream_queue) : stream_run.by[i] = a}

Nth(S, n) == CHOOSE x \in S : Cardinality({y \in S : y < x}) = n - 1

\* positions of the end_of_llm events, in order
EndsOfLLM == {i \in 1..Len(stream_queue) : stream_queue[i].event = "end_of_llm"}

\* the position of the event of the same agent that closes the tool calls
\* published after position i: its next start_of_llm or its end_of_agent
ClosersAfter(i) ==
  {j \in EventsOf(stream_run.by[i]) :
     j > i /\ stream_queue[j].event \in {"start_of_llm", "end_of_agent"}}

\* positions of the tool_call events of the agent that follow its end_of_llm at i
ToolCallsAfter(i) ==
  {j \in EventsOf(stream_run.by[i]) :
     /\ j > i
     /\ stream_queue[j].event = "tool_call"
     /\ \A c \in ClosersAfter(i) : j < c}

AgentIds == {stream_run.by[i] : i \in 1..Len(stream_queue)} \ {NULL}

\* C20: for every agent of a run, main agent or sub-agent, its start_of_agent
\* event precedes its end_of_agent event and every event the agent produces
\* lies between the two.
C20_AgentEventsBracketed ==
  (stream_run.phase # "none" /\ stream_run.streaming) =>
    /\ \A a \in AgentIds :
         /\ stream_queue[Min(EventsOf(a))].event = "start_of_agent"
         /\ stream_queue[Min(EventsOf(a))].data.agent_id = a
         /\ \A i \in EventsOf(a) :
              /\ stream_queue[i].event = "start_of_agent" => i = Min(EventsOf(a))
              /\ stream_queue[i].event = "end_of_agent" =>
                   /\ i = Max(EventsOf(a))
                   /\ i > Min(EventsOf(a))
                   /\ stream_queue[i].data.agent_id = a
         /\ stream_run.phase = "done" => stream_queue[Max(EventsOf(a))].event = "end_of_agent"
    /\ \A i \in 1..Len(stream_queue) :
         (\/ stream_queue[i].event \in {"start_of_llm", "end_of_llm", "message",
                                        "start_of_agent", "end_of_agent"}
          \/ /\ stream_queue[i].event = "tool_call"
             /\ stream_queue[i].data.tool_name # SHOW_ERROR)
           => stream_run.by[i] # NULL

\* a finished run in which a sub-agent published its own events between two
\* events of the main agent
C20_Witness ==
  /\ stream_run.phase = "done"
  /\ stream_run.streaming
  /\ \E a, b \in AgentIds :
       /\ a # b
       /\ Min(EventsOf(a)) < Min(EventsOf(b))
       /\ Max(EventsOf(b)) < Max(EventsOf(a))
       /\ \E i \in EventsOf(b) : stream_queue[i].event = "tool_call"
       /\ \E i \in EventsOf(a) :
            i > Max(EventsOf(b)) /\ stream_queue[i].event = "start_of_llm"

\* ------------------------------------------------- the tool_call events of one agent
MaxPublishedCalls == 3

\* the tool calls whose events the agent publishes: their input, then their result
PublishedTools == {RUN_PYTHON_CODE, GOOGLE_SEARCH}

SHOW_TEXT == <<"show_text">>

\* the call each new event of the queue belongs to
OfCall(q, k) ==
  stream_run.of_call \o [m \in 1..(Len(q) - Len(stream_queue)) |-> k]

InitToolEvents ==
  /\ IdleLoop
  /\ NoUnit
  /\ stream_queue = <<>>
  /\ stream_run = [phase |-> "tool events", streaming |-> TRUE, next_uuid |-> 1,
                   calls |-> <<>>, of_call |-> <<>>]

\* tool_call(tool_name, arguments): the input of a new call, under a fresh id
PublishToolInput ==
  /\ stream_run.phase = "tool events"
  /\ Len(stream_run.calls) < MaxPublishedCalls
  /\ \E tool_name \in PublishedTools :
       LET id == uuid4(stream_run.next_uuid)
           q == tool_call(stream_queue, stream_run.streaming, tool_name, ArgumentsPayload,
                          id, NULL)
       IN /\ stream_queue' = q
          /\ stream_run' = [stream_run EXCEPT
                              !.next_uuid = @ + 1,
                              !.calls = Append(@, [tool_name |-> tool_name,
                                                   tool_call_id |-> q[Len(q)].data.tool_call_id,
                                                   open |-> TRUE]),
                              !.of_call = OfCall(q, Len(stream_run.calls) + 1)]
  /\ UNCHANGED <<configVars, loopVars, toolVars, unitVars>>

\* tool_call(tool_name, {"result": ...}, tool_call_id=tool_call_id): the
\* result of a call, under the id its input was published with
PublishToolResult ==
  /\ stream_run.phase = "tool events"
  /\ \E k \in 1..Len(stream_run.calls) :
       /\ stream_run.calls[k].open
       /\ LET c == stream_run.calls[k]
              q == tool_call(stream_queue, stream_run.streaming, c.tool_name, ResultPayload,
                             uuid4(stream_run.next_uuid), c.tool_call_id)
          IN /\ stream_queue' = q
             /\ stream_run' = [stream_run EXCEPT !.calls[k].open = FALSE,
                                                 !.of_call = OfCall(q, k)]
  /\ UNCHANGED <<configVars, loopVars, toolVars, unitVars>>

\* tool_call("show_text", payload, streaming=True): one delta per payload key
PublishStreaming ==
  /\ stream_run.phase = "tool events"
  /\ Len(stream_run.calls) < MaxPublishedCalls
  /\ LET id == uuid4(stream_run.next_uuid)
         q == DeltaEvents(stream_queue, stream_run.streaming, SHOW_TEXT, TextPayload, id)
     IN /\ stream_queue' = q
        /\ stream_run' = [stream_run EXCEPT
                            !.next_uuid = @ + 1,
                            !.calls = Append(@, [tool_name |-> SHOW_TEXT,
                                                 tool_call_id |-> q[Len(q)].data.tool_call_id,
                                                 open |-> FALSE]),
                            !.of_call = OfCall(q, Len(stream_run.calls) + 1)]
  /\ UNCHANGED <<configVars, loopVars, toolVars, unitVars>>

NextToolEvents ==
  \/ PublishToolInput
  \/ PublishToolResult
  \/ PublishStreaming

SpecToolEvents == InitToolEvents /\ [][NextToolEvents]_vars

ToolCallEvents == {i \in 1..Len(stream_queue) : stream_queue[i].event = "tool_call"}

\* C21: among the tool_call events of one agent no two events carry the same
\* tool_call_id.
C21_ToolCallIdsUniquePerEvent ==
  stream_run.phase = "tool events" =>
    \A i, j \in ToolCallEvents :
      i # j => stream_queue[i].data.tool_call_id # stream_queue[j].data.tool_call_id

\* C21, amended: a tool_call_id identifies a tool call, not an event: two
\* tool_call events of one agent carry the same tool_call_id exactly when
\* they belong to the same call (its input and its result, or the deltas of
\* one streaming publication), and then they carry the same tool_name.
C21_ToolCallIdsIdentifyCalls ==
  stream_run.phase = "tool events" =>
    \A i, j \in ToolCallEvents :
      /\ (stream_queue[i].data.tool_call_id = stream_queue[j].data.tool_call_id)
           <=> (stream_run.of_call[i] = stream_run.of_call[j])
      /\ stream_run.of_call[i] = stream_run.of_call[j]
           => stream_queue[i].data.tool_name = stream_queue[j].data.tool_name

\* two calls of the same tool, each with its input and its result published
C21_Witness ==
  /\ stream_run.phase = "tool events"
  /\ \E i, j, k, l \in ToolCallEvents :
       /\ i < j /\ j < k /\ k < l
       /\ stream_run.of_call[i] = stream_run.of_call[k]
       /\ stream_run.of_call[j] = stream_run.of_call[l]
       /\ stream_run.of_call[i] # stream_run.of_call[j]
       /\ stream_queue[i].data.tool_name = stream_queue[j].data.tool_name
       /\ stream_queue[i].data.tool_call_id = stream_queue[k].data.tool_call_id
       /\ stream_queue[i].data.tool_call_id # stream_queue[j].data.tool_call_id

MainAgentActs ==
  \/ model_calls'["main"] # model_calls["main"]
  \/ answer_calls'["main"] # answer_calls["main"]
  \/ pc["main"] = "tools" /\ tool_budget_used'["main"] # tool_budget_used["main"]
  \/ pc["main"] = "tools" /\ pc'["main"] = "delegating"

\* the sessions stored so far stay as they are
SessionsFrozen ==
  /\ Len(sessions') >= Len(sessions)
  /\ \A k \in 1..Len(sessions) : sessions'[k] = sessions[k]

\* C23: every sub-agent session that is started is ended before control
\* returns to the main agent's turn loop: whenever the main agent performs a
\* model call or a tool call no session is open, and the stored history of an
\* ended session no longer changes.
C23_SessionsEndBeforeMainResumes ==
  [][/\ MainAgentActs => (current_sub_agent_session_id = NoId /\ pc["sub"] = "idle")
     /\ SessionsFrozen]_vars

\* the main agent has made a model call after a session ended
C23_Witness ==
  /\ Len(sessions) >= 1
  /\ status = "running"
  /\ sub_agent_counter >= 1
  /\ last_call.agent = "main"
  /\ model_calls["main"] >= 2
  /\ current_sub_agent_session_id = NoId

\* ------------------------------------------------- the tool servers
\* the configured servers, in the order of server_dict
ServerOrders ==
  {<<>>, <<TOOL_PYTHON>>, <<TOOL_PYTHON, TOOL_SEARCH>>, <<TOOL_SEARCH, TOOL_PYTHON>>}

\* what a server does while its tools are listed: the transport fails to
\* open, session.initialize() fails, session.list_tools() fails, the tools
\* are listed, or they are listed and the session fails while it is closed
ListEnvs == {"open_fail", "init_fail", "list_fail", "ok", "close_fail"}

\* response.tools of a server
ToolsOf(name) ==
  IF name = TOOL_PYTHON THEN <<LoadedTool(RUN_PYTHON_CODE)>>
  ELSE <<LoadedTool(GOOGLE_SEARCH), LoadedTool(SCRAPE_AND_EXTRACT_INFO)>>

\* manager_v2.py: the entry of one server; every exception ends in an error item
EntryOf(name, env) ==
  [name |-> name, tools |-> IF env = "ok" THEN ToolsOf(name) ELSE <<FailedTool>>]

RECURSIVE get_all_tool_definitions(_, _)
get_all_tool_definitions(names, envs) ==
  IF names = <<>> THEN Returned(<<>>)
  ELSE Returned(<<EntryOf(Head(names), envs[Head(names)])>>
                  \o get_all_tool_definitions(Tail(names), envs).value)

\* managerv2.py: the connection is entered outside any try block, and the
\* entry is appended only when the tools were listed
RECURSIVE get_all_tool_definitions_managerv2(_, _)
get_all_tool_definitions_managerv2(names, envs) ==
  IF names = <<>> THEN Returned(<<>>)
  ELSE LET env == envs[Head(names)]
           rest == get_all_tool_definitions_managerv2(Tail(names), envs)
       IN IF env \in {"open_fail", "init_fail"} THEN Raised(<<"ConnectError">>)
          ELSE IF env = "close_fail" THEN Raised(<<"McpError">>)
          ELSE IF rest.kind = "raise" THEN rest
          ELSE IF env = "list_fail" THEN rest
          ELSE Returned(<<EntryOf(Head(names), env)>> \o rest.value)

\* browser_session.py, PlaywrightSession.call_tool: connect, call, and the
\* text of the first content block
call_tool(env) ==
  IF env.step \in {"open_fail", "init_fail", "call_fail"} THEN Raised(ExcText(env))
  ELSE LET c == env.content
       IN IF Len(c) = 0 THEN Returned(<<>>)
          ELSE IF c[1].type = "text" THEN Returned(c[1].text)
          ELSE Raised(<<"AttributeError">>)

GET_ALL_TOOL_DEFINITIONS == "get_all_tool_definitions"
EXECUTE_TOOL_CALL == "execute_tool_call"
CALL_TOOL == "PlaywrightSession.call_tool"

\* the responses of a server to a call: also one whose first block is the image
CallEnvs == ToolEnvs \cup {[step |-> "ok", content |-> <<ImageBlock, TextBlock("out")>>]}

InitToolServers ==
  /\ IdleLoop
  /\ NoStream
  /\ fn_ret = NotCalled
  /\ \/ /\ fn = GET_ALL_TOOL_DEFINITIONS
        /\ \E names \in ServerOrders :
             /\ fn_arg \in [impl : {"manager_v2", "managerv2"}, names : {names},
                            envs : [server_dict -> ListEnvs]]
     \/ /\ fn = EXECUTE_TOOL_CALL
        /\ fn_arg \in [impl : {"manager_v2", "managerv2"}, env : CallEnvs]
     \/ /\ fn = CALL_TOOL
        /\ fn_arg \in [impl : {"browser_session"}, env : CallEnvs]

GetAllToolDefinitions ==
  /\ fn = GET_ALL_TOOL_DEFINITIONS
  /\ fn_ret = NotCalled
  /\ fn_ret' = IF fn_arg.impl = "manager_v2"
               THEN get_all_tool_definitions(fn_arg.names, fn_arg.envs)
               ELSE get_all_tool_definitions_managerv2(fn_arg.names, fn_arg.envs)
  /\ UNCHANGED <<configVars, loopVars, toolVars, fn, fn_arg, streamVars>>

ExecuteOnServer ==
  /\ fn = EXECUTE_TOOL_CALL
  /\ fn_ret = NotCalled
  /\ fn_ret' = IF fn_arg.impl = "manager_v2"
               THEN execute_tool_call(TOOL_PYTHON, RUN_PYTHON_CODE, fn_arg.env)
               ELSE execute_tool_call_managerv2(TOOL_PYTHON, RUN_PYTHON_CODE, fn_arg.env)
  /\ UNCHANGED <<configVars, loopVars, toolVars, fn, fn_arg, streamVars>>

CallTool ==
  /\ fn = CALL_TOOL
  /\ fn_ret = NotCalled
  /\ fn_ret' = call_tool(fn_arg.env)
  /\ UNCHANGED <<configVars, loopVars, toolVars, fn, fn_arg, streamVars>>

NextToolServers ==
  \/ GetAllToolDefinitions
  \/ ExecuteOnServer
  \/ CallTool

SpecToolServers == InitToolServers /\ [][NextToolServers]_vars

\* C24: get_all_tool_definitions returns exactly one entry per configured
\* server, in configuration order; a server whose connection or listing fails
\* gets an entry whose tools list holds an error item, the call does not
\* raise, and the entries of the other servers are still returned.
C24_OneEntryPerServer ==
  (fn = GET_ALL_TOOL_DEFINITIONS /\ fn_ret # NotCalled) =>
    /\ fn_ret.kind = "return"
    /\ Len(fn_ret.value) = Len(fn_arg.names)
    /\ \A k \in 1..Len(fn_arg.names) :
         /\ fn_ret.value[k].name = fn_arg.names[k]
         /\ fn_ret.value[k].tools =
              IF fn_arg.envs[fn_arg.names[k]] = "ok" THEN ToolsOf(fn_arg.names[k])
              ELSE <<FailedTool>>

\* the text a successful call is to return: the text of the last block
LastBlockText(c) == IF Len(c) = 0 THEN <<>> ELSE c[Len(c)].text

\* C26: a successful tool call returns the text of the last content block of
\* the server's response, and the empty string when the response has no
\* content blocks, in ToolManagerV2.execute_tool_call and in
\* PlaywrightSession.call_tool alike.
C26_LastBlockTextReturned ==
  (/\ fn \in {EXECUTE_TOOL_CALL, CALL_TOOL}
   /\ fn_ret # NotCalled
   /\ fn_arg.env.step = "ok"
   /\ \A k \in 1..Len(fn_arg.env.content) : fn_arg.env.content[k].type = "text") =>
    /\ fn_ret.kind = "return"
    /\ IF fn = CALL_TOOL THEN fn_ret.value = LastBlockText(fn_arg.env.content)
       ELSE /\ "result" \in DOMAIN fn_ret.value
            /\ fn_ret.value.result = LastBlockText(fn_arg.env.content)

\* C25: every value returned by execute_tool_call carries exactly one of
\* result or error: never both, never neither, and never a null return.
C25_ExactlyOneOfResultOrError ==
  tm_out.kind = "return" =>
    /\ tm_out.value # NULL
    /\ {"server_name", "tool_name"} \subseteq DOMAIN tm_out.value
    /\ ("result" \in DOMAIN tm_out.value) # ("error" \in DOMAIN tm_out.value)

\* a call whose server answered with two blocks has returned its result
C25_Witness ==
  /\ tm_out.kind = "return"
  /\ tm_env.step = "ok"
  /\ Len(tm_env.content) = 2
  /\ "result" \in DOMAIN tm_out.value
  /\ "error" \notin DOMAIN tm_out.value

\* ------------------------------------------------- task_logger.py, TaskLog.to_json
MaxItems == 2

\* Python values by type.  str is JSON-serializable as it is; a Path, a set, a
\* datetime and an object with attributes are not
StrValue == [t |-> "str"]

PathValue == [t |-> "Path"]

SetValue == [t |-> "set"]

DatetimeValue == [t |-> "datetime"]

ObjectValue(attr) == [t |-> "object", attrs |-> <<attr>>]

ListValue(items) == [t |-> "list", items |-> items]

DictValue(items) == [t |-> "dict", items |-> items]

LeafValues == {StrValue, PathValue, SetValue, DatetimeValue}

FlatValues == LeafValues \cup {ObjectValue(v) : v \in {StrValue, PathValue, SetValue}}

\* the values stored in the log: flat ones, lists of them and dicts of them
StoredValues ==
  FlatValues
    \cup {ListValue(items) : items \in UNION {[1..n -> FlatValues] : n \in 1..MaxItems}}
    \cup {DictValue(<<v>>) : v \in FlatValues}

\* the places of a TaskLog that hold arbitrary values
LogFields == {"input", "env_info", "main_agent_message_history", "trace_data", "step_logs"}

\* dataclasses.asdict(self): the log as a dict, the value stored in its field
asdict(field, value) ==
  DictValue(<<StrValue,
              IF field = "input" THEN value
              ELSE IF field \in {"env_info", "trace_data"} THEN DictValue(<<value>>)
              ELSE ListValue(<<DictValue(<<StrValue, DictValue(<<value>>)>>)>>)>>)

RECURSIVE serialize_for_json(_)
serialize_for_json(obj) ==
  IF obj.t = "Path" THEN StrValue
  ELSE IF obj.t = "dict"
  THEN DictValue([k \in 1..Len(obj.items) |-> serialize_for_json(obj.items[k])])
  ELSE IF obj.t = "list"
  THEN ListValue([k \in 1..Len(obj.items) |-> serialize_for_json(obj.items[k])])
  ELSE IF obj.t = "object"
  THEN serialize_for_json(DictValue(obj.attrs))
  ELSE obj

\* json.dumps accepts the value
RECURSIVE JsonSerializable(_)
JsonSerializable(v) ==
  IF v.t \in {"dict", "list"} THEN \A k \in 1..Len(v.items) : JsonSerializable(v.items[k])
  ELSE v.t = "str"

\* TaskLog.to_json: asdict, serialize_for_json, json.dumps
to_json(field, value) ==
  LET serialized_dict == serialize_for_json(asdict(field, value))
  IN IF JsonSerializable(serialized_dict) THEN Returned(serialized_dict)
     ELSE Raised(<<"TypeError">>)

TO_JSON == "TaskLog.to_json"

InitToJson ==
  /\ IdleLoop
  /\ NoStream
  /\ fn = TO_JSON
  /\ fn_arg \in [field : LogFields, value : StoredValues]
  /\ fn_ret = NotCalled

ToJson ==
  /\ fn = TO_JSON
  /\ fn_ret = NotCalled
  /\ fn_ret' = to_json(fn_arg.field, fn_arg.value)
  /\ UNCHANGED <<configVars, loopVars, toolVars, fn, fn_arg, streamVars>>

NextToJson == ToJson

SpecToJson == InitToJson /\ [][NextToJson]_vars

\* out is orig with every value that json cannot serialize replaced by a string
RECURSIVE Stringified(_, _)
Stringified(orig, out) ==
  IF orig.t \in {"dict", "list"}
  THEN /\ out.t = orig.t
       /\ Len(out.items) = Len(orig.items)
       /\ \A k \in 1..Len(orig.items) : Stringified(orig.items[k], out.items[k])
  ELSE out.t = "str"

\* C27: to_json never fails because of a non-JSON-serializable value stored
\* in the log (in input, env_info, a message history, trace_data or step
\* metadata): every such value appears as a string in the serialized output.
C27_NonSerializableValuesStringified ==
  (fn = TO_JSON /\ fn_ret # NotCalled) =>
    /\ fn_ret.kind = "return"
    /\ Stringified(asdict(fn_arg.field, fn_arg.value), fn_ret.value)

\* ------------------------------------------------- unterminated and blacklisted boxes
\* the text after the opening brace of the \boxed{ at p, to the end of the string
RestAfter(t, p) == Slice(t, BraceOf(t, p) + 1, Len(t))

\* C28: when the last \boxed{ of the text has no matching closing brace, the
\* extractor returns the text from just after that opening brace to the end of
\* the string, whitespace-trimmed (a blacklisted placeholder aside), also
\* when complete \boxed{...} occurrences precede it
C28_UnterminatedLastBoxToEnd ==
  (fn = EXTRACT_BOXED /\ fn_ret.kind = "return" /\ BoxOpens(fn_arg.text) # {}) =>
    LET t == fn_arg.text
        p == Max(BoxOpens(t))
    IN (~IsCompleteBox(t, p) /\ RestAfter(t, p) \notin black_list)
         => fn_ret.value = Strip(RestAfter(t, p))

\* C29: the value returned by _extract_boxed_content is never one of the
\* blacklisted placeholders (?, ??, ???, unknown): when the content of the
\* last box is a blacklisted value or empty, the extractor returns the empty string
C29_NeverReturnsPlaceholder ==
  (fn = EXTRACT_BOXED /\ fn_ret.kind = "return") => fn_ret.value \notin black_list

\* ------------------------------------------------- the frame of the name-correction pass
\* the blocks of a response as the tool-call pattern reads them: the text of
\* the server name, of the tool name and of the arguments
BlocksOf(text) ==
  LET ms == FindAll(text, 1)
  IN [k \in 1..Len(ms) |->
        [server_name |-> Strip(ms[k].server),
         tool_name |-> Strip(ms[k].tool),
         arguments |-> Strip(ms[k].args)]]

\* C30: the name-correction pass leaves unchanged every tool-call block whose
\* tool_name is outside the allow-list and is not python or python_code: its
\* server_name, tool_name and arguments are the same before and after the
\* pass, also when other blocks of the response are corrected.
C30_OtherBlocksUnchanged ==
  (fn = FIX_SERVER_NAME /\ fn_ret # NotCalled) =>
    LET before == BlocksOf(fn_arg.text)
        after == BlocksOf(fn_ret.value)
    IN /\ Len(after) = Len(before)
       /\ \A k \in 1..Len(before) :
            before[k].tool_name \notin (TARGET_TOOLS \cup {PYTHON, PYTHON_CODE})
              => after[k] = before[k]

\* ------------------------------------------------- the tool result formatter alone
FORMAT_TOOL_RESULT == "format_tool_result_for_user"

TRUNCATED == "\n... [Result truncated]"

\* a text of n characters, one token per character
Chars(n, pattern) ==
  [i \in 1..n |-> IF pattern = "ab" /\ i % 2 = 0 THEN "b" ELSE "a"]

\* lengths of tool results: short ones and the ones around the ceiling
ResultLengths == {0, 1, 2, 3, max_len - 1, max_len, max_len + 1}

\* what execute_tool_call hands to the formatter: a result, an error, or
\* neither key
ExecutionResults ==
  {rv_result(s, t, Chars(n, p)) :
     s \in server_dict, t \in {RUN_PYTHON_CODE, GOOGLE_SEARCH},
     n \in ResultLengths, p \in {"a", "ab"}}
  \cup {rv_error(s, t, e) :
          s \in server_dict, t \in {RUN_PYTHON_CODE, GOOGLE_SEARCH},
          e \in {<<"ToolError">>, <<"McpError">>}}
  \cup {[server_name |-> s, tool_name |-> t] :
          s \in server_dict, t \in {RUN_PYTHON_CODE, GOOGLE_SEARCH}}

InitFormat ==
  /\ IdleLoop
  /\ NoStream
  /\ fn = FORMAT_TOOL_RESULT
  /\ fn_arg \in [tool_call_execution_result : ExecutionResults]
  /\ fn_ret = NotCalled

FormatToolResult ==
  /\ fn = FORMAT_TOOL_RESULT
  /\ fn_ret = NotCalled
  /\ fn_ret' = Returned(format_tool_result_for_user(fn_arg.tool_call_execution_result))
  /\ UNCHANGED <<configVars, loopVars, toolVars, fn, fn_arg, streamVars>>

NextFormat == FormatToolResult

SpecFormat == InitFormat /\ [][NextFormat]_vars

NAME_FIX_RUN == "name correction over a run"

\* the responses the main agent emits: no block, or one block
MainResponses == {<<>>} \cup EmittedBlocks

\* parsing_utils.py, set_tool_server_mapping: the value the module-level
\* _tool_server_mapping holds afterwards
set_tool_server_mapping(system_prompt) == parse_tool_server_mapping(system_prompt)

\* fn_ret holds the position of the run (at), the module-level table and the
\* corrected responses of the main agent
InitNameFixRun ==
  /\ IdleLoop
  /\ NoStream
  /\ fn = NAME_FIX_RUN
  /\ fn_arg \in [main_servers : ServerLists, sub_servers : ServerLists, text : MainResponses]
  /\ fn_ret = NotCalled

\* the system prompt of the main agent is produced and its table is set
ProduceMainPrompt ==
  /\ fn = NAME_FIX_RUN
  /\ fn_ret = NotCalled
  /\ fn_ret' = [kind |-> "run", at |-> "main",
                tool_server_mapping |->
                  set_tool_server_mapping(generate_mcp_system_prompt(fn_arg.main_servers)),
                corrected |-> <<>>]
  /\ UNCHANGED <<configVars, loopVars, toolVars, fn, fn_arg, streamVars>>

\* a response of the main agent passes through fix_server_name_in_text
CorrectMainResponse ==
  /\ fn = NAME_FIX_RUN
  /\ fn_ret.kind = "run"
  /\ fn_ret.at \in {"main", "main resumed"}
  /\ Len(fn_ret.corrected) < (IF fn_ret.at = "main" THEN 1 ELSE 2)
  /\ fn_ret' = [fn_ret EXCEPT !.corrected =
                  Append(@, fix_server_name_in_text(fn_arg.text, fn_ret.tool_server_mapping))]
  /\ UNCHANGED <<configVars, loopVars, toolVars, fn, fn_arg, streamVars>>

\* a delegation: the system prompt of the sub-agent is produced and the table
\* is set from it
ProduceSubAgentPrompt ==
  /\ fn = NAME_FIX_RUN
  /\ fn_ret.kind = "run"
  /\ fn_ret.at = "main"
  /\ fn_ret' = [fn_ret EXCEPT !.at = "sub",
                  !.tool_server_mapping =
                    set_tool_server_mapping(generate_mcp_system_prompt(fn_arg.sub_servers))]
  /\ UNCHANGED <<configVars, loopVars, toolVars, fn, fn_arg, streamVars>>

\* the delegation returns to the main agent
SubAgentReturns ==
  /\ fn = NAME_FIX_RUN
  /\ fn_ret.kind = "run"
  /\ fn_ret.at = "sub"
  /\ fn_ret' = [fn_ret EXCEPT !.at = "main resumed"]
  /\ UNCHANGED <<configVars, loopVars, toolVars, fn, fn_arg, streamVars>>

NextNameFixRun ==
  ProduceMainPrompt \/ CorrectMainResponse \/ ProduceSubAgentPrompt \/ SubAgentReturns

SpecNameFixRun == InitNameFixRun /\ [][NextNameFixRun]_vars

\* C32: name correction applied to a response of the main agent uses the
\* table built from the main agent's own system prompt: building the table
\* from a sub-agent's system prompt during a delegation does not change the
\* corrections applied to the main agent's responses after the delegation returns.
C32_MainCorrectedWithOwnTable ==
  (fn = NAME_FIX_RUN /\ fn_ret # NotCalled) =>
    \A k \in 1..Len(fn_ret.corrected) :
      fn_ret.corrected[k] = fix_server_name_in_text(fn_arg.text, TableOf(fn_arg.main_servers))

\* ------------------------------------------------- the table of a generated prompt
MaxListed == 2

PARSE_MAPPING == "parse_tool_server_mapping"

WRITE_FILE == <<"write_file">>

\* a further line of a description that reads "### Tool name: google_search"
QuotedHeading == [h |-> "tool", name |-> GOOGLE_SEARCH]

\* the entries of a server's tool list: allow-listed tools and another tool
\* that loaded, a tool that failed to load, a tool whose description has
\* several lines
ListedTools ==
  {LoadedTool(RUN_PYTHON_CODE), LoadedTool(GOOGLE_SEARCH), LoadedTool(WRITE_FILE), FailedTool,
   DescribedTool(WRITE_FILE, <<TextLine>>), DescribedTool(WRITE_FILE, <<QuotedHeading>>)}

ListedServers ==
  {Server(n, ts) : n \in {TOOL_PYTHON, TOOL_SEARCH},
                   ts \in UNION {[1..k -> ListedTools] : k \in 0..MaxListed}}

\* the server lists given to generate_mcp_system_prompt: the entries of
\* get_all_tool_definitions, one per configured server name
PromptServerLists ==
  {<<>>} \cup {<<a>> : a \in ListedServers}
    \cup {l \in [1..2 -> ListedServers] : l[1].name # l[2].name}

InitToolTable ==
  /\ IdleLoop
  /\ NoStream
  /\ fn = PARSE_MAPPING
  /\ fn_arg \in [mcp_servers : PromptServerLists]
  /\ fn_ret = NotCalled

ParseToolServerMapping ==
  /\ fn = PARSE_MAPPING
  /\ fn_ret = NotCalled
  /\ fn_ret' = Returned(parse_tool_server_mapping(generate_mcp_system_prompt(fn_arg.mcp_servers)))
  /\ UNCHANGED <<configVars, loopVars, toolVars, fn, fn_arg, streamVars>>

NextToolTable == ParseToolServerMapping

SpecToolTable == InitToolTable /\ [][NextToolTable]_vars

\* the names of the servers of the list that list tool_name as a loaded tool
ServersListing(mcp_servers, tool_name) ==
  {mcp_servers[k].name : k \in
     {k \in 1..Len(mcp_servers) :
        \E j \in 1..Len(mcp_servers[k].tools) :
          /\ mcp_servers[k].tools[j].kind = "tool"
          /\ mcp_servers[k].tools[j].name = tool_name}}

\* C33: for every server list given to generate_mcp_system_prompt, the table
\* parse_tool_server_mapping builds from the generated prompt maps each
\* allow-listed tool that loaded to a server under whose heading it is listed,
\* and has no entry for a tool that failed to load or is not in the list.
C33_TableMatchesServerList ==
  (fn = PARSE_MAPPING /\ fn_ret # NotCalled) =>
    LET mapping == fn_ret.value
    IN /\ \A k \in 1..Len(mapping) : mapping[k].tool_name \in TARGET_TOOLS
       /\ \A t \in TARGET_TOOLS :
            IF ServersListing(fn_arg.mcp_servers, t) = {}
            THEN ~InMapping(mapping, t)
            ELSE /\ InMapping(mapping, t)
                 /\ DictGet(mapping, t) \in ServersListing(fn_arg.mcp_servers, t)

\* ------------------------------------------------- the frame of the retention pass
\* out differs from h at most in the content of user and tool messages
SameButToolContent(h, out) ==
  /\ Len(out) = Len(h)
  /\ \A i \in 1..Len(h) :
       /\ out[i].role = h[i].role
       /\ [out[i] EXCEPT !.content = h[i].content] = h[i]
       /\ h[i].role \notin {"user", "tool"} => out[i] = h[i]

\* C34: for every keep_tool_result value, the retention pass leaves the
\* caller's message history unchanged and returns a history of the same
\* length with the same roles in the same order, in which only the content of
\* user/tool messages may differ; with keep_tool_result = -1 the returned
\* history is equal to the input.
C34_RetentionFrame ==
  [][(fn = RETENTION /\ fn_ret = NotCalled /\ fn_ret' # NotCalled) =>
       /\ fn_arg' = fn_arg
       /\ fn_ret'.kind = "return"
       /\ SameButToolContent(fn_arg.messages, fn_ret'.value)
       /\ fn_arg.keep_tool_result = -1 => fn_ret'.value = fn_arg.messages]_vars

\* the pass has rewritten a tool result of a history given to it
C34_Witness ==
  /\ fn = RETENTION
  /\ fn_ret # NotCalled
  /\ fn_arg.keep_tool_result >= 0
  /\ \E i \in 1..Len(fn_arg.messages) :
       /\ fn_arg.messages[i].content.text # SENTINEL
       /\ fn_ret.value[i].content.text = SENTINEL

\* ------------------------------------------------- native tool names
NATIVE_NAMES == "convert_tool_definition_to_tool_call"

GET_ALERTS == <<"get", DASH, "alerts">>

\* the tool definitions of the agent: servers with and without a dash in
\* their name, tools with and without one, a tool that failed to load
NativeServers ==
  {Server(n, ts) :
     n \in {TOOL_PYTHON, TOOL_SEARCH},
     ts \in UNION {[1..k -> {LoadedTool(RUN_PYTHON_CODE), LoadedTool(GOOGLE_SEARCH),
                             LoadedTool(GET_ALERTS), FailedTool}] : k \in 0..MaxListed}}

NativeDefinitions ==
  {<<>>} \cup {<<a>> : a \in NativeServers}
    \cup {l \in [1..2 -> NativeServers] : l[1].name # l[2].name}

\* the function definitions of the tools of one server
FunctionsOf(server) ==
  [k \in 1..Len(server.tools) |->
     [type |-> "function", name |-> server.name \o <<DASH>> \o server.tools[k].name]]

\* base_client.py, BaseClient.convert_tool_definition_to_tool_call: the tool
\* list; tool["name"] of an entry that failed to load raises KeyError
RECURSIVE convert_tool_definition_to_tool_call(_)
convert_tool_definition_to_tool_call(tools_definitions) ==
  IF tools_definitions = <<>> THEN Returned(<<>>)
  ELSE LET server == Head(tools_definitions)
           rest == convert_tool_definition_to_tool_call(Tail(tools_definitions))
       IN IF \E k \in 1..Len(server.tools) : server.tools[k].kind = "error"
          THEN Raised(<<"KeyError">>)
          ELSE IF rest.kind = "raise" THEN rest
          ELSE Returned(FunctionsOf(server) \o rest.value)

InitNativeNames ==
  /\ IdleLoop
  /\ NoStream
  /\ fn = NATIVE_NAMES
  /\ fn_arg \in [tools_definitions : NativeDefinitions]
  /\ fn_ret = NotCalled

ConvertToolDefinitions ==
  /\ fn = NATIVE_NAMES
  /\ fn_ret = NotCalled
  /\ fn_ret' = convert_tool_definition_to_tool_call(fn_arg.tools_definitions)
  /\ UNCHANGED <<configVars, loopVars, toolVars, fn, fn_arg, streamVars>>

\* the model calls every function it was given, and the calls are parsed
ParseNativeCalls ==
  /\ fn = NATIVE_NAMES
  /\ fn_ret.kind = "return"
  /\ fn_ret' =
       [kind |-> "parsed",
        tool_list |-> fn_ret.value,
        calls |-> parse_llm_response_for_tool_calls(
                    [shape |-> "list",
                     tool_calls |-> [k \in 1..Len(fn_ret.value) |->
                                       [name |-> fn_ret.value[k].name,
                                        arguments |-> <<"{json}">>,
                                        id |-> CallId(k)]]])]
  /\ UNCHANGED <<configVars, loopVars, toolVars, fn, fn_arg, streamVars>>

NextNativeNames == ConvertToolDefinitions \/ ParseNativeCalls

SpecNativeNames == InitNativeNames /\ [][NextNativeNames]_vars

\* the (server_name, tool_name) pairs of the definitions, in order
RECURSIVE Exposed(_)
Exposed(tools_definitions) ==
  IF tools_definitions = <<>> THEN <<>>
  ELSE [k \in 1..Len(Head(tools_definitions).tools) |->
          [server_name |-> Head(tools_definitions).name,
           tool_name |-> Head(tools_definitions).tools[k].name]]
         \o Exposed(Tail(tools_definitions))

\* C35: round trip of native tool names: for every server name and tool name
\* exposed to the model as the function name <server_name>-<tool_name>,
\* parsing a native call with that function name yields the same
\* (server_name, tool_name) pair.
C35_NativeNameRoundTrip ==
  (fn = NATIVE_NAMES /\ fn_ret.kind = "parsed") =>
    LET exposed == Exposed(fn_arg.tools_definitions)
    IN /\ Len(fn_ret.calls) = Len(exposed)
       /\ \A k \in 1..Len(exposed) :
            /\ fn_ret.calls[k].server_name = exposed[k].server_name
            /\ fn_ret.calls[k].tool_name = exposed[k].tool_name

\* ------------------------------------------------- session ids of one TaskLog
MaxSessions == 4

SESSIONS == "sub-agent sessions of a TaskLog"

\* sub-agent names, among them names that read like a session id
SessionNames == {<<"a">>, <<"a", "_", 1>>, <<"a", "_", 2>>}

\* fn_ret holds the session ids returned so far
InitSessions ==
  /\ IdleLoop
  /\ NoStream
  /\ fn = SESSIONS
  /\ fn_arg = <<>>
  /\ fn_ret = [kind |-> "ids", returned |-> <<>>]

StartSubAgentSession ==
  /\ fn = SESSIONS
  /\ sub_agent_counter < MaxSessions
  /\ \E sub_agent_name \in SessionNames :
       LET s == start_sub_agent_session(sub_agent_name, sub_agent_counter)
       IN /\ sub_agent_counter' = s.sub_agent_counter
          /\ current_sub_agent_session_id' = s.session_id
          /\ fn_ret' = [fn_ret EXCEPT !.returned = Append(@, s.session_id)]
  /\ UNCHANGED <<configVars, toolVars, streamVars, fn, fn_arg, history, turn_index,
                 tool_budget_used, wall_clock_exhausted, pc, pending, status, persisted,
                 sessions, model_calls, answer_calls, last_call, last_tool>>

EndSubAgentSession ==
  /\ fn = SESSIONS
  /\ current_sub_agent_session_id' = end_sub_agent_session(current_sub_agent_session_id)
  /\ UNCHANGED <<configVars, toolVars, streamVars, unitVars, history, turn_index,
                 tool_budget_used, wall_clock_exhausted, pc, pending, status, persisted,
                 sub_agent_counter, sessions, model_calls, answer_calls, last_call, last_tool>>

NextSessions == StartSubAgentSession \/ EndSubAgentSession

SpecSessions == InitSessions /\ [][NextSessions]_vars

\* C36: over any sequence of start_sub_agent_session / end_sub_agent_session
\* calls on one TaskLog all returned session ids are pairwise distinct, also
\* the ids of two sessions of the same sub-agent.
C36_SessionIdsDistinct ==
  fn = SESSIONS =>
    \A i, j \in 1..Len(fn_ret.returned) :
      i # j => fn_ret.returned[i] # fn_ret.returned[j]

\* the same sub-agent has been started twice, the first session having ended
C36_Witness ==
  /\ fn = SESSIONS
  /\ Len(fn_ret.returned) >= 2
  /\ current_sub_agent_session_id = NoId
  /\ \E i, j \in 1..Len(fn_ret.returned) :
       /\ i < j
       /\ Len(fn_ret.returned[i]) = Len(fn_ret.returned[j])
       /\ SubSeq(fn_ret.returned[i], 1, Len(fn_ret.returned[i]) - 2)
            = SubSeq(fn_ret.returned[j], 1, Len(fn_ret.returned[j]) - 2)

\* ------------------------------------------------- gradio-demo/main.py, one run of the host
MaxEvents == 2

\* an event of the pipeline, the event of show_error, the error event of the thread
PipelineEvent(n) == [event |-> "message", data |-> <<n>>]
ShowErrorEvent == [event |-> "tool_call", data |-> <<"show_error">>]
ThreadErrorEvent == [event |-> "error", data |-> <<"error">>]

\* filter_message that hands None on as it is
filter_message_passing_none(item) == Returned(item)

\* filter_message: message.get of None raises AttributeError; the result
\* texts it shortens are not modelled
filter_message(item) ==
  IF item.event = "None" THEN Raised(<<"AttributeError">>) ELSE Returned(item)

\* ThreadSafeAsyncQueue.put_nowait_threadsafe: the put is scheduled on the UI
\* loop when that loop is running (close() is never called); scheduled puts
\* reach the queue in the order they were scheduled
put_nowait_threadsafe(queue, loop_running, item) ==
  IF ~loop_running THEN queue ELSE Append(queue, item)

\* QueueProxy.put as StreamHandler calls it: nothing once the cancel event is
\* set; an exception of filter_message is caught by the StreamHandler
QueueProxy_put(queue, loop_running, cancel_event, item) ==
  IF cancel_event THEN queue
  ELSE LET filtered == filter_message(item)
       IN IF filtered.kind = "raise" THEN queue
          ELSE put_nowait_threadsafe(queue, loop_running, filtered.value)

\* stop_click: the buttons are updated, _CANCEL_FLAGS is not touched
stop_click(cancel_flag) == cancel_flag

\* stream_queue is the UI queue: every item placed on it, in order
\*   ui            gradio_run: "polling", or how its loop ended
\*   read          number of items gradio_run has taken from the queue
\*   stop_pressed  the user has pressed Stop during this run
\*   cancel_flag   _CANCEL_FLAGS[task_id]
\*   cancel_event  runner.cancel_event
\*   task          the pipeline task: running, done, raised, cancelled
\*   thread        _run_pipeline_thread: watching, except, finally, finished
\*   published     events the pipeline has handed to the QueueProxy
\*   error_shown   the pipeline has called StreamHandler.show_error
\*   loop_running  the UI event loop is running
InitDemo ==
  /\ IdleLoop
  /\ NoUnit
  /\ stream_queue = <<>>
  /\ stream_run = [phase |-> "demo", ui |-> "polling", read |-> 0, stop_pressed |-> FALSE,
                   cancel_flag |-> FALSE, cancel_event |-> FALSE, task |-> "running",
                   thread |-> "watching", published |-> 0, error_shown |-> FALSE,
                   loop_running |-> TRUE]

DemoUnchanged == UNCHANGED <<configVars, loopVars, toolVars, unitVars>>

\* the user presses Stop while gradio_run is in its loop
StopClick ==
  /\ stream_run.phase = "demo"
  /\ stream_run.loop_running
  /\ stream_run.ui = "polling"
  /\ ~stream_run.stop_pressed
  /\ stream_run' = [stream_run EXCEPT !.stop_pressed = TRUE,
                                      !.cancel_flag = stop_click(@)]
  /\ UNCHANGED stream_queue
  /\ DemoUnchanged

\* one pass of the while loop of gradio_run that does not time out: the
\* cancel flag is read first, then a message is taken; leaving the loop runs
\* the finally block (runner.cleanup, _set_cancel(task_id, False))
GradioRunPoll ==
  /\ stream_run.phase = "demo"
  /\ stream_run.loop_running
  /\ stream_run.ui = "polling"
  /\ stream_run.cancel_flag \/ stream_run.read < Len(stream_queue)
  /\ stream_run' =
       IF stream_run.cancel_flag
       THEN [stream_run EXCEPT !.cancel_event = TRUE, !.ui = "stopped by user",
                               !.cancel_flag = FALSE]
       ELSE IF stream_queue[stream_run.read + 1].event = "None"
       THEN [stream_run EXCEPT !.read = @ + 1, !.ui = "ended", !.cancel_flag = FALSE]
       ELSE [stream_run EXCEPT !.read = @ + 1]
  /\ UNCHANGED stream_queue
  /\ DemoUnchanged

\* no message for 30 seconds: the runner is cancelled and the loop is left
GradioRunStalls ==
  /\ stream_run.phase = "demo"
  /\ stream_run.loop_running
  /\ stream_run.ui = "polling"
  /\ ~stream_run.cancel_flag
  /\ stream_run.read = Len(stream_queue)
  /\ stream_run' = [stream_run EXCEPT !.cancel_event = TRUE, !.ui = "timeout",
                                      !.cancel_flag = FALSE]
  /\ UNCHANGED stream_queue
  /\ DemoUnchanged

\* the pipeline publishes an event through the QueueProxy
PipelinePublishes ==
  /\ stream_run.phase = "demo"
  /\ stream_run.task = "running"
  /\ stream_run.published < MaxEvents
  /\ stream_queue' = QueueProxy_put(stream_queue, stream_run.loop_running,
                                    stream_run.cancel_event,
                                    PipelineEvent(stream_run.published + 1))
  /\ stream_run' = [stream_run EXCEPT !.published = @ + 1]
  /\ DemoUnchanged

\* the pipeline reports an error with StreamHandler.show_error: the event,
\* then None, both through the QueueProxy
PipelineShowsError ==
  /\ stream_run.phase = "demo"
  /\ stream_run.task = "running"
  /\ ~stream_run.error_shown
  /\ stream_queue' =
       QueueProxy_put(
         QueueProxy_put(stream_queue, stream_run.loop_running, stream_run.cancel_event,
                        ShowErrorEvent),
         stream_run.loop_running, stream_run.cancel_event, END_OF_STREAM)
  /\ stream_run' = [stream_run EXCEPT !.error_shown = TRUE]
  /\ DemoUnchanged

\* the pipeline task returns, or raises
PipelineEnds ==
  /\ stream_run.phase = "demo"
  /\ stream_run.task = "running"
  /\ \E how \in {"done", "raised"} : stream_run' = [stream_run EXCEPT !.task = how]
  /\ UNCHANGED stream_queue
  /\ DemoUnchanged

\* the cancellation watcher of run(): it leaves its loop when the cancel
\* event is set or the task is done; with the event set it cancels the task
\* and awaits it (the task ends cancelled, or raises while it is being
\* cancelled), and an exception of the task other than CancelledError reaches
\* the except block of the thread
Watcher ==
  /\ stream_run.phase = "demo"
  /\ stream_run.thread = "watching"
  /\ stream_run.cancel_event \/ stream_run.task # "running"
  /\ \E how \in {"cancelled", "raised"} :
       stream_run' =
         IF stream_run.cancel_event /\ stream_run.task = "running"
         THEN [stream_run EXCEPT !.task = how,
                                 !.thread = IF how = "raised" THEN "except" ELSE "finally"]
         ELSE IF stream_run.cancel_event /\ stream_run.task = "raised"
         THEN [stream_run EXCEPT !.thread = "except"]
         ELSE [stream_run EXCEPT !.thread = "finally"]
  /\ UNCHANGED stream_queue
  /\ DemoUnchanged

\* except Exception: the error event is put on the queue
ThreadExcept ==
  /\ stream_run.phase = "demo"
  /\ stream_run.thread = "except"
  /\ stream_queue' = put_nowait_threadsafe(stream_queue, stream_run.loop_running,
                                           ThreadErrorEvent)
  /\ stream_run' = [stream_run EXCEPT !.thread = "finally"]
  /\ DemoUnchanged

\* finally: the sentinel None is put on the queue
ThreadFinally ==
  /\ stream_run.phase = "demo"
  /\ stream_run.thread = "finally"
  /\ stream_queue' = put_nowait_threadsafe(stream_queue, stream_run.loop_running,
                                           END_OF_STREAM)
  /\ stream_run' = [stream_run EXCEPT !.thread = "finished"]
  /\ DemoUnchanged

\* the UI event loop stops, and gradio_run with it
UILoopStops ==
  /\ stream_run.phase = "demo"
  /\ stream_run.loop_running
  /\ stream_run' = [stream_run EXCEPT !.loop_running = FALSE]
  /\ UNCHANGED stream_queue
  /\ DemoUnchanged

NextDemo ==
  \/ StopClick
  \/ GradioRunPoll
  \/ GradioRunStalls
  \/ PipelinePublishes
  \/ PipelineShowsError
  \/ PipelineEnds
  \/ Watcher
  \/ ThreadExcept
  \/ ThreadFinally
  \/ UILoopStops

SpecDemo == InitDemo /\ [][NextDemo]_vars

\* the polling loop of gradio_run (its 30 second limit included) and the
\* pipeline thread keep running
FairSpecDemo ==
  /\ SpecDemo
  /\ WF_vars(GradioRunPoll)
  /\ WF_vars(GradioRunStalls)
  /\ WF_vars(Watcher)
  /\ WF_vars(ThreadExcept)
  /\ WF_vars(ThreadFinally)

\* C37: in the demo host, when the user presses Stop while a task is
\* running, that task's cancel flag becomes set, the run loop observes it
\* within its polling interval, cancels the pipeline runner and reports the
\* run as stopped by the user (as long as the UI event loop runs).
C37_StopLeadsToStopped ==
  (stream_run.phase = "demo" /\ stream_run.stop_pressed /\ stream_run.ui = "polling")
    ~> \/ stream_run.ui = "stopped by user" /\ stream_run.cancel_event
       \/ ~stream_run.loop_running

\* the positions of the sentinel on the UI queue
SentinelAt == {i \in 1..Len(stream_queue) : stream_queue[i].event = "None"}

\* C38: for every pipeline run in the demo host whose UI event loop is still
\* running - whether the pipeline completes, raises or is cancelled - the
\* end-of-stream marker None is placed on the UI queue exactly once, and after
\* every event of that run that reaches the queue.
C38_SentinelOnceAndLast ==
  stream_run.phase = "demo" =>
    /\ Cardinality(SentinelAt) <= 1
    /\ \A i \in SentinelAt : i = Len(stream_queue)
    /\ (stream_run.thread = "finished" /\ stream_run.loop_running)
         => Cardinality(SentinelAt) = 1

\* a run that reported an error with show_error and was then cancelled has
\* ended: its events and then the sentinel are on the queue
C38_Witness ==
  /\ stream_run.phase = "demo"
  /\ stream_run.thread = "finished"
  /\ stream_run.task = "cancelled"
  /\ stream_run.error_shown
  /\ stream_run.loop_running
  /\ Len(stream_queue) >= 3
  /\ \E i \in 1..Len(stream_queue) : stream_queue[i].event = "tool_call"
  /\ stream_queue[Len(stream_queue)].event = "None"

\* ------------------------------------------------- browser_session.py, one PlaywrightSession
MaxSessionCalls == 4

PLAYWRIGHT_SESSION == "PlaywrightSession"

\* what the server does while connect runs: the transport fails to open,
\* session.__aenter__() fails, session.initialize() fails, or all succeed
ConnectEnvs == {"open_fail", "enter_fail", "init_fail", "ok"}

\* self.session: "None", or the ClientSession as far as connect brought it:
\* "created", "entered", "initialized"; self._client: "None", "created", "entered"
NewPlaywrightSession == [session |-> "None", client |-> "None"]

\* connect: self.session is assigned before the session is entered and
\* initialized, and no step that fails undoes the assignments before it
connect(self, env) ==
  IF self.session # "None" THEN [self |-> self, raised |-> FALSE]
  ELSE IF env = "open_fail"
  THEN [self |-> [self EXCEPT !.client = "created"], raised |-> TRUE]
  ELSE IF env = "enter_fail"
  THEN [self |-> [session |-> "created", client |-> "entered"], raised |-> TRUE]
  ELSE IF env = "init_fail"
  THEN [self |-> [session |-> "entered", client |-> "entered"], raised |-> TRUE]
  ELSE [self |-> [session |-> "initialized", client |-> "entered"], raised |-> FALSE]

\* call_tool up to self.session.call_tool: connect when self.session is None,
\* then the call goes over self.session
\*   before     self.session when call_tool was entered
\*   attempted  connect was called
\*   sent_over  the session the tool call was sent over, "none" when connect raised
session_call_tool(self, env) ==
  LET attempted == self.session = "None"
      connected == IF attempted THEN connect(self, env)
                   ELSE [self |-> self, raised |-> FALSE]
  IN [self |-> connected.self,
      call |-> [before |-> self.session, attempted |-> attempted,
                sent_over |-> IF connected.raised THEN "none"
                              ELSE connected.self.session]]

\* close: the session is left and dropped, then the transport
close(self) == [session |-> "None", client |-> "None"]

InitPlaywright ==
  /\ IdleLoop
  /\ NoStream
  /\ fn = PLAYWRIGHT_SESSION
  /\ fn_arg = NewPlaywrightSession
  /\ fn_ret = [kind |-> "calls", calls |-> <<>>]

\* one call of call_tool on the session
SessionCallTool ==
  /\ fn = PLAYWRIGHT_SESSION
  /\ Len(fn_ret.calls) < MaxSessionCalls
  /\ \E env \in ConnectEnvs :
       LET r == session_call_tool(fn_arg, env)
       IN /\ fn_arg' = r.self
          /\ fn_ret' = [fn_ret EXCEPT !.calls = Append(@, r.call)]
  /\ UNCHANGED <<configVars, loopVars, toolVars, fn, streamVars>>

\* the owner closes the session
SessionClose ==
  /\ fn = PLAYWRIGHT_SESSION
  /\ fn_arg # NewPlaywrightSession
  /\ fn_arg' = close(fn_arg)
  /\ UNCHANGED <<configVars, loopVars, toolVars, fn, fn_ret, streamVars>>

NextPlaywright ==
  \/ SessionCallTool
  \/ SessionClose

SpecPlaywright == InitPlaywright /\ [][NextPlaywright]_vars

\* C39: PlaywrightSession.call_tool sends a tool call only over a session
\* whose connect completed successfully (transport opened, session entered and
\* initialize finished): after a connect attempt that fails part-way, the next
\* call_tool attempts to connect again instead of using the half-initialised
\* session.
C39_CallsOnlyOverConnectedSession ==
  fn = PLAYWRIGHT_SESSION =>
    \A k \in 1..Len(fn_ret.calls) :
      /\ fn_ret.calls[k].sent_over \in {"none", "initialized"}
      /\ fn_ret.calls[k].before # "initialized" => fn_ret.calls[k].attempted

====
